---- MODULE Spec2Model ----
(***************************************************************************)
(* Cover resolution engine of sportscovers-data (src/src/fetchers.js, the  *)
(* axios-based fetchers module starting at line 217): the retrying HTTP    *)
(* client, candidate de-duplication, the curated-override harvester, the   *)
(* score, the image prober with its PNG / JPEG / WebP header sniffers, the *)
(* fetchCover orchestrator with alias resolution and its download loop,    *)
(* fetchCover calls running concurrently, the batch drivers of             *)
(* src/src/build.js and src/src/test-fetchers.js, the kiosko.net           *)
(* harvester (path keys, the size-by-key loop, the day index pages), the   *)
(* harvesters of the declared primary and fallback sources, the writer of  *)
(* today.json against its reader, and the source loop of the fetch-based   *)
(* module at the head of the file (trySourcesAndDownload).                 *)
(*                                                                         *)
(* A URL is a sequence of text tokens: the host first, then path pieces,   *)
(* the file name last.  A date directory YYYY/MM/DD is one token.          *)
(***************************************************************************)
EXTENDS Integers, Sequences, FiniteSets, TLC

VARIABLES
    \* ---- withRetry ----
    rTries,      \* option tries
    rBase,       \* option baseDelayMs
    rI,          \* loop variable i
    rPc,         \* "attempt" | "sleep" | "returned" | "thrown"
    rCalls,      \* number of invocations of fn so far
    rFails,      \* statuses of the failed invocations, in order (0: no status)
    rSleeps,     \* delays passed to sleep(), in order
    rOkAt,       \* number of the invocation that succeeded, 0 if none
    \* ---- uniqueByUrl ----
    uIn,         \* the list handed to uniqueByUrl
    uOut,        \* its result
    uPc,         \* "call" | "done"
    \* ---- fetchCoverFromTodayJson (curated-override harvester) ----
    cStore,      \* today.json as found on disk
    cProbes,     \* URLs handed to probeImage, in order
    cResult,     \* the value returned
    cPc,         \* "call" | "done"
    \* ---- fetchCover ----
    requested,   \* the publisher argument of the call
    given,       \* the dateStr and outputDir arguments of the call
    roster,      \* the allPublishers argument of the call
    publisher,   \* the local variable publisher
    ranWith,     \* id and configuration each harvester run so far was given
    stored,      \* the entry upsertTodayJsonEntry wrote
    pc,          \* "harvest" | "rank" | "download" | "done"
    harvested,   \* what the harvesters run so far handed over (after safe)
    threw,       \* the harvesters that threw or rejected
    rawCandidates, \* uniqueByUrl of the six results
    rankI,       \* number of raw candidates probed by rankCandidates
    rankProbes,  \* the probes of rankCandidates, in order: URL, referer, result (Null: it threw)
    ranked,      \* rankCandidates' list: candidates with their _score
    dI,          \* position of the download loop in the ranked list
    lastErr,     \* message of the last error caught in the download loop
    files,       \* outputDir: what <date>-medium<ext> holds, per extension
    attempts,    \* download requests issued, in order
    todayJson,   \* number of upsertTodayJsonEntry writes that went through
    error,       \* the error fetchCover threw
    result,      \* the value fetchCover returned
    \* ---- scoreCoverCandidate ----
    sUrl,        \* the candidate URL
    sSource,     \* its source tag
    sMeta,       \* its probe result
    sBytes2,     \* a second byte size for the same URL, source and dimensions
    sScore,      \* scoreCoverCandidate(sUrl, sMeta, sSource)
    sScore2,     \* the score with sBytes2 in place of sMeta.bytes
    sScoreCut,   \* the score of sUrl with the text "logo" cut out of it
    sPc,         \* "call" | "done"
    \* ---- getImageSizeFromBuffer and the three header sniffers ----
    nCt,         \* the content type handed over
    nBuf,        \* the buffer handed over
    nTruth,      \* the format the buffer was laid out in, and the fields stored in it
    nSize,       \* the value returned: null, {width, height}, or an exception
    nPc,         \* "call" | "done"
    \* ---- probeImage ----
    bResp,       \* what the ranged request came to: a response, or withRetry threw
    bKind,       \* the header the sampled bytes were laid out with
    bResult,     \* the probe result returned, or the error thrown
    bPc,         \* "call" | "done"
    \* ---- fetchCover calls running concurrently in one process ----
    kCalls,      \* per call: publisher, dateStr, outputDir, extension of the candidate URL
    kPc,         \* per call: "request" | "piping" | "piped" | "validated" | "done" | "failed"
    kTouched,    \* per call: the file paths it has written, validated or renamed
    kFiles,      \* per file path: whether it exists, and the calls whose bytes it holds
    kStore,      \* today.json: the array of entries
    \* ---- the batch drivers: main of build.js, run of test-fetchers.js ----
    tDriver,     \* "build" | "test"
    tRoster,     \* the publishers of publishers.json, in order
    tI,          \* number of roster entries the loop has gone through
    tResults,    \* build.js: results
    tOk,         \* test-fetchers.js: results.ok
    tFail,       \* test-fetchers.js: results.fail
    tWritten,    \* what the driver wrote at its end: today.json, or the log
    tPc,         \* "loop" | "done"
    \* ---- fetchKioskoNetDirectByKeys ----
    dPub,        \* the publisher: id, name, country
    dKeys,       \* pathKeys
    dK,          \* position of the outer loop in pathKeys
    dS,          \* position of the inner loop in sizes
    dProbed,     \* the probes issued, in order: path key, size, URL
    dFirstPass,  \* number of the first probe that succeeded with a score of 70 or more, 0 if none
    dResult,     \* the value returned
    dPc,         \* "loop" | "done"
    \* ---- fetchKioskoNetFromDailyHtmlAny ----
    yPub,        \* the publisher: id, name, country
    yPages,      \* what each of the two day URLs answers
    yP,          \* position of the outer loop in dayUrls
    yTiles,      \* tiles of the current page, sorted, the first ten
    yT,          \* position of the inner loop in the tiles
    yProbed,     \* the tiles whose image was probed, in order
    yPassed,     \* the tiles passed over for their match score, in order
    yResult,     \* the value returned, with the tile it came from
    yPc,         \* "page" | "tile" | "done" | "thrown"
    \* ---- fetchFromPrimary and fetchFromFallbacks ----
    mPub,        \* the publisher: id, primary, fallbacks
    mPages,      \* what the page behind each configured URL holds
    mProbe,      \* what a probe of each image gives (Null: it throws)
    mPrimary,    \* what await safe(fetchFromPrimary(publisher)) gave
    mFb,         \* position of the loop of fetchFromFallbacks
    mFallback,   \* what await safe(fetchFromFallbacks(publisher)) gave
    mPc,         \* "primary" | "fallbacks" | "done"
    \* ---- upsertTodayJsonEntry against what parseTodayJson accepts ----
    jBefore,     \* today.json before the call
    jCall,       \* the entry the call builds: publisher, date, source URL
    jAfter,      \* today.json after the call
    jPc,         \* "call" | "done" | "thrown"
    \* ---- trySourcesAndDownload (legacy) ----
    lSources,    \* what each source page holds, in the order of sources
    lI,          \* position of the loop in sources
    lLog,        \* the turns taken, in order: source, outcome, image URL
    lResult,     \* the value returned
    lPc          \* "loop" | "done"

retryVars == <<rTries, rBase, rI, rPc, rCalls, rFails, rSleeps, rOkAt>>
uniqueVars == <<uIn, uOut, uPc>>
curatedVars == <<cStore, cProbes, cResult, cPc>>
fetchVars == <<requested, given, roster, publisher, ranWith, stored, pc, harvested, threw, rawCandidates, rankI, rankProbes, ranked, dI, lastErr,
               files, attempts, todayJson, error, result>>
scoreVars == <<sUrl, sSource, sMeta, sBytes2, sScore, sScore2, sScoreCut, sPc>>
sniffVars == <<nCt, nBuf, nTruth, nSize, nPc>>
probeVars == <<bResp, bKind, bResult, bPc>>
raceVars == <<kCalls, kPc, kTouched, kFiles, kStore>>
batchVars == <<tDriver, tRoster, tI, tResults, tOk, tFail, tWritten, tPc>>
directVars == <<dPub, dKeys, dK, dS, dProbed, dFirstPass, dResult, dPc>>
dailyVars == <<yPub, yPages, yP, yTiles, yT, yProbed, yPassed, yResult, yPc>>
declaredVars == <<mPub, mPages, mProbe, mPrimary, mFb, mFallback, mPc>>
upsertVars == <<jBefore, jCall, jAfter, jPc>>
legacyVars == <<lSources, lI, lLog, lResult, lPc>>
vars == <<retryVars, uniqueVars, curatedVars, fetchVars, scoreVars, sniffVars,
          probeVars, raceVars, batchVars, directVars, dailyVars, declaredVars, upsertVars,
          legacyVars>>

-----------------------------------------------------------------------------
(* JavaScript null for an object-valued expression. *)
Null == [null |-> TRUE]

(* JavaScript null / undefined for a string-valued expression. *)
NullStr == "null"

-----------------------------------------------------------------------------
(* Bounds of the model. *)
MaxTries == 4
MaxList == 3
MaxItems == 2
MaxParts == 3
MaxRoster == 3

-----------------------------------------------------------------------------
(*                               withRetry                                 *)

(* Statuses a failed request may carry; 0 stands for a connection-level    *)
(* failure, whose error has no response and so no status.                  *)
FailStatuses == {0, 304, 403, 404, 429, 500, 503, 599, 600}

BaseDelays == {500, 650, 700}

RECURSIVE Pow2(_)
Pow2(n) == IF n = 0 THEN 1 ELSE 2 * Pow2(n - 1)

RetriableOn4xx(status) == status = 0 \/ (status >= 400 /\ status <= 599)

retriable(status) ==
    status = 0 \/ status = 429 \/ (status >= 500 /\ status <= 599)

backoffDelayShifted(baseDelayMs, i) == baseDelayMs * Pow2(i + 1)

backoffDelay(baseDelayMs, i) == baseDelayMs * Pow2(i)

RetryIdle ==
    /\ rTries = 0 /\ rBase = 0 /\ rI = 0 /\ rPc = "idle"
    /\ rCalls = 0 /\ rFails = <<>> /\ rSleeps = <<>> /\ rOkAt = 0

RetryInit ==
    /\ rTries \in 0..MaxTries
    /\ rBase \in BaseDelays
    /\ rI = 0
    /\ rPc = "attempt"
    /\ rCalls = 0
    /\ rFails = <<>>
    /\ rSleeps = <<>>
    /\ rOkAt = 0

(* fn() resolves: its value is returned at once. *)
withRetryOk ==
    /\ rPc = "attempt"
    /\ rI < rTries
    /\ rCalls' = rCalls + 1
    /\ rOkAt' = rCalls + 1
    /\ rPc' = "returned"
    /\ UNCHANGED <<rTries, rBase, rI, rFails, rSleeps>>

(* fn() rejects with an error of the given status: break, or sleep. *)
withRetryFail ==
    /\ rPc = "attempt"
    /\ rI < rTries
    /\ \E status \in FailStatuses :
        /\ rCalls' = rCalls + 1
        /\ rFails' = Append(rFails, status)
        /\ IF ~retriable(status) \/ rI = rTries - 1
              THEN /\ rPc' = "thrown"
                   /\ rSleeps' = rSleeps
              ELSE /\ rPc' = "sleep"
                   /\ rSleeps' = Append(rSleeps, backoffDelay(rBase, rI))
    /\ UNCHANGED <<rTries, rBase, rI, rOkAt>>

(* The sleep is over: i++ and the next turn of the loop. *)
withRetryWake ==
    /\ rPc = "sleep"
    /\ rI' = rI + 1
    /\ rPc' = "attempt"
    /\ UNCHANGED <<rTries, rBase, rCalls, rFails, rSleeps, rOkAt>>

(* The loop condition i < tries is false: throw last. *)
withRetryExhausted ==
    /\ rPc = "attempt"
    /\ ~(rI < rTries)
    /\ rPc' = "thrown"
    /\ UNCHANGED <<rTries, rBase, rI, rCalls, rFails, rSleeps, rOkAt>>

-----------------------------------------------------------------------------
(*                        URLs, probe results, score                       *)

(* No URL: what normalizeUrl returns for an empty or unparsable value. *)
NullUrl == <<>>

(* width / height null: the header could not be sniffed. *)
NullDim == 0 - 1

DateTokens == {"2025/12/19", "2025/12/20"}

(* `${m[1]}-${m[2]}-${m[3]}` for a matched /YYYY/MM/DD/ directory. *)
dateOfToken(t) ==
    CASE t = "2025/12/19" -> "2025-12-19"
      [] t = "2025/12/20" -> "2025-12-20"

(* The text patterns the code searches URLs for, and, for each token of    *)
(* the model's URLs, the patterns its lower-cased text contains.           *)
tokenContains(t) ==
    CASE t = "img.kiosko.net"      -> {"img.kiosko.net"}
      [] t = "www.frontpages.com"  -> {"frontpage"}
      [] t = "marca.750.jpg"       -> {".jpg"}
      [] t = "marca.jpg"           -> {".jpg"}
      [] t = "as.750.jpg"          -> {".jpg"}
      [] t = "mundodeportivo.750.jpg" -> {".jpg"}
      [] t = "portada.jpg"         -> {"portada", ".jpg"}
      [] t = "cover.jpeg"          -> {"cover", ".jpeg"}
      [] t = "banner.png"          -> {"banner"}
      [] t = "logo.jpg"            -> {"logo", ".jpg"}
      [] t = ".jpg"                -> {".jpg"}
      [] t = "logo-banner.png"     -> {"logo", "banner"}
      [] t = "-banner.png"         -> {"banner"}
      [] t = "team-logo.png"       -> {"logo"}
      [] t = "cologover.jpg"       -> {"logo", ".jpg"}
      [] t = "cover.jpg"           -> {"cover", ".jpg"}
      [] t = "favicon.png"         -> {"favicon", "icon"}
      [] t = "wp-content/uploads"  -> {"wp-content/uploads", "ads"}
      [] OTHER                     -> {}

(* lu.includes(k) *)
includes(url, k) == \E i \in 1..Len(url) : k \in tokenContains(url[i])

(* path.extname(url.split("?")[0] || ""): the extension of the last token. *)
extname(url) ==
    IF url = NullUrl THEN ""
    ELSE LET f == url[Len(url)]
         IN  CASE f \in {"marca.750.jpg", "marca.jpg", "portada.jpg", "logo.jpg",
                         "cover.jpg?v=2", "cologover.jpg", "cover.jpg", "as.750.jpg",
                         "mundodeportivo.750.jpg"} -> ".jpg"
               [] f = "cover.jpeg"             -> ".jpeg"
               [] f \in {"banner.png", "favicon.png", "logo-banner.png", "-banner.png",
                         "team-logo.png", "team-.png"} -> ".png"
               [] OTHER                        -> ""

(* The first img.kiosko.net/YYYY/MM/DD/ of the URL, as YYYY-MM-DD. *)
extractKioskoDateFromUrl(u) ==
    LET hits == { i \in 1..Len(u) :
                    /\ i + 2 <= Len(u)
                    /\ u[i] = "img.kiosko.net"
                    /\ u[i + 1] \in DateTokens }
    IN  IF hits = {} THEN NullStr
        ELSE dateOfToken(u[(CHOOSE i \in hits : \A j \in hits : i <= j) + 1])

(* A raw href / src / sourceUrl value: absolute, protocol-relative (//host), *)
(* relative to the base, or blank.                                          *)
RawUrl(kind, parts) == [kind |-> kind, parts |-> parts]

normalizeUrl(raw, baseUrl) ==
    CASE raw.kind = "blank"    -> NullUrl
      [] raw.kind = "protorel" -> <<"https:">> \o raw.parts
      [] raw.kind = "abs"      -> raw.parts
      [] raw.kind = "rel"      -> baseUrl \o raw.parts

isTodayJsonSource(source) ==
    source \in {"today.json:/repo/docs/data/today.json", "today.json:docs/data/today.json"}

Truthy(n) == n # NullDim /\ n # 0

Meta(ct, bytes, w, h) == [contentType |-> ct, bytes |-> bytes, width |-> w, height |-> h]

Bias(cond, w) == IF cond THEN w ELSE 0

(* The non-cover patterns of the score. *)
badPatterns ==
    {"logo", "favicon", "sprite", "icon", "avatar", "profile", "ads", "banner", "placeholder"}

badBiasNoLogo(url) == Bias(\E k \in badPatterns \ {"logo"} : includes(url, k), 0 - 200)

(* if (bad.some((k) => lu.includes(k))) s -= 200: one penalty, however     *)
(* many of the patterns the URL contains.                                  *)
badBias(url) == Bias(\E k \in badPatterns : includes(url, k), 0 - 200)

sizeTierDip(meta) ==
    IF meta = Null \/ ~Truthy(meta.bytes) THEN 0
    ELSE IF meta.bytes > 900000 THEN 35
    ELSE IF meta.bytes > 400000 THEN 25
    ELSE IF meta.bytes > 150000 THEN 12
    ELSE IF meta.bytes < 40000 THEN 20
    ELSE 0

(* The byte-size rule of the score: if (meta?.bytes) { ... } *)
sizeTier(meta) ==
    IF meta = Null \/ ~Truthy(meta.bytes) THEN 0
    ELSE IF meta.bytes > 900000 THEN 35
    ELSE IF meta.bytes > 400000 THEN 25
    ELSE IF meta.bytes > 150000 THEN 12
    ELSE IF meta.bytes < 40000 THEN 0 - 20
    ELSE 0

scoreCoverCandidate(url, meta, source) ==
    LET w == meta.width
        h == meta.height
        dimTier ==
            IF meta = Null \/ ~(Truthy(meta.width) /\ Truthy(meta.height)) THEN 0
            ELSE (IF w >= 900 /\ h >= 1200 THEN 60
                  ELSE IF w >= 700 /\ h >= 900 THEN 40
                  ELSE IF w >= 500 /\ h >= 700 THEN 20
                  ELSE 0 - 30)
               \* aspect = w / h: 0.5 <= aspect <= 0.85, aspect > 1.2
               + (IF 2 * w >= h /\ 20 * w <= 17 * h THEN 40
                  ELSE IF 5 * w > 6 * h THEN 0 - 60
                  ELSE 0)
               + Bias(w <= 320 \/ h <= 320, 0 - 100)
    IN    Bias(isTodayJsonSource(source), 200)
        + badBias(url)
        + Bias(includes(url, "img.kiosko.net"), 120)
        + Bias(includes(url, "wp-content/uploads"), 15)
        + Bias(includes(url, "frontpage") \/ includes(url, "portada") \/ includes(url, "cover"), 10)
        + sizeTier(meta)
        + dimTier
        + Bias(includes(url, ".jpg") \/ includes(url, ".jpeg"), 5)

(* What a probe of a URL may come to: it throws (Null here), or a result. *)
BigJpeg == Meta("image/jpeg", 650000, 1200, 1600)
SmallBanner == Meta("image/png", 12000, 300, 80)
UnsniffedJpeg == Meta("image/jpeg", 90000, NullDim, NullDim)

ProbeOutcomes == {Null, BigJpeg, SmallBanner, UnsniffedJpeg}

-----------------------------------------------------------------------------
(*                              uniqueByUrl                                *)

UrlA == <<"https:", "img.kiosko.net", "2025/12/20", "es", "marca.750.jpg">>
UrlB == <<"https:", "www.frontpages.com", "marca", "portada.jpg">>
UrlC == <<"https:", "www.marca.com", "banner.png">>

Cand(url, referer, source) == [url |-> url, referer |-> referer, source |-> source]

(* What the harvesters hand over: null, or a candidate with a url. *)
UniqueInputs ==
    { Null,
      Cand(UrlA, NullStr, "today.json:docs/data/today.json"),
      Cand(UrlA, NullStr, "kiosko.net(direct)"),
      Cand(UrlB, "https://www.frontpages.com/marca/", "frontpages.com"),
      Cand(UrlC, "https://www.marca.com/", "meta") }

RECURSIVE SeqsUpTo(_, _)
SeqsUpTo(S, n) ==
    IF n = 0 THEN { <<>> }
    ELSE LET shorter == SeqsUpTo(S, n - 1)
         IN  shorter \cup { Append(s, x) : s \in { t \in shorter : Len(t) = n - 1 }, x \in S }

(* !x?.url : x is null, or has no (or an empty) url. *)
hasNoUrl(x) == x = Null \/ x.url = NullUrl

RECURSIVE filterKeepAll(_, _, _)
filterKeepAll(list, i, seen) ==
    IF i > Len(list) THEN <<>>
    ELSE IF hasNoUrl(list[i]) THEN filterKeepAll(list, i + 1, seen)
    ELSE <<list[i]>> \o filterKeepAll(list, i + 1, seen \cup {list[i].url})

(* list.filter(...) from position i on, with the Set seen so far. *)
RECURSIVE filterUnseen(_, _, _)
filterUnseen(list, i, seen) ==
    IF i > Len(list) THEN <<>>
    ELSE IF hasNoUrl(list[i]) THEN filterUnseen(list, i + 1, seen)
    ELSE IF list[i].url \in seen THEN filterUnseen(list, i + 1, seen)
    ELSE <<list[i]>> \o filterUnseen(list, i + 1, seen \cup {list[i].url})

uniqueByUrlNoSeen(list) == filterKeepAll(list, 1, {})

uniqueByUrl(list) == filterUnseen(list, 1, {})

UniqueIdle == uIn = <<>> /\ uOut = <<>> /\ uPc = "idle"

UniqueInit ==
    /\ uIn \in SeqsUpTo(UniqueInputs, MaxList)
    /\ uOut = <<>>
    /\ uPc = "call"

UniqueCall ==
    /\ uPc = "call"
    /\ uOut' = uniqueByUrl(uIn)
    /\ uPc' = "done"
    /\ UNCHANGED uIn

-----------------------------------------------------------------------------
(*               fetchCoverFromTodayJson (curated override)                *)

(* The request the model resolves. *)
PublisherId == "marca"
DateStr == "2025-12-20"

KioskoBase == <<"https:", "img.kiosko.net">>

K20 == <<"https:", "img.kiosko.net", "2025/12/20", "es", "marca.750.jpg">>
K19 == <<"https:", "img.kiosko.net", "2025/12/19", "es", "marca.750.jpg">>

Item(publisherId, date, sourceUrl) ==
    [publisherId |-> publisherId, date |-> date, sourceUrl |-> sourceUrl]

(* sourceUrl values of curated records. *)
RawSourceUrls ==
    { RawUrl("abs", K20),
      RawUrl("abs", K19),
      RawUrl("protorel", <<"img.kiosko.net", "2025/12/19", "es", "marca.750.jpg">>),
      RawUrl("rel", <<"2025/12/19", "es", "marca.750.jpg">>),
      RawUrl("abs", <<"https:", "www.frontpages.com", "2025/12/19", "marca.jpg">>),
      RawUrl("abs", <<"https:", "proxy.example", "img.kiosko.net", "2025/12/19", "es", "marca.750.jpg">>),
      RawUrl("abs", <<"https:", "www.marca.com", "banner.png">>),
      RawUrl("blank", <<>>) }

StoreItems ==
    { Item(PublisherId, DateStr, raw) : raw \in RawSourceUrls }
    \cup { Item("as", DateStr, RawUrl("abs", K20)),
           Item(PublisherId, "2025-12-19", RawUrl("abs", K19)) }

(* today.json on disk: missing, not parsable, or a list of records. *)
Store(state, items) == [state |-> state, items |-> items]

Stores ==
    { Store("missing", <<>>), Store("corrupt", <<>>) }
    \cup { Store("ok", items) : items \in SeqsUpTo(StoreItems, MaxItems) }

(* items.find(...): the first record of the publisher and date, or null. *)
findHit(items, publisherId, dateStr) ==
    LET hits == { k \in 1..Len(items) :
                    items[k].publisherId = publisherId /\ items[k].date = dateStr }
    IN  IF hits = {} THEN Null
        ELSE items[CHOOSE k \in hits : \A j \in hits : k <= j]

strictDateInverted(imgUrl, dateStr) ==
    /\ includes(imgUrl, "img.kiosko.net")
    /\ extractKioskoDateFromUrl(imgUrl) = dateStr

strictDateOff(imgUrl, dateStr) == FALSE

(* The strict kiosko date check: TRUE when the URL is turned down. *)
strictKioskoDate(imgUrl, dateStr) ==
    /\ includes(imgUrl, "img.kiosko.net")
    /\ LET kioskoDate == extractKioskoDateFromUrl(imgUrl)
       IN  kioskoDate # NullStr /\ kioskoDate # dateStr

Returned(ret, probes) == [ret |-> ret, probes |-> probes]

(* The call with the store as found and the probe's outcome (Null: the     *)
(* probe throws): the value returned and the URLs probed.                  *)
fetchCoverFromTodayJson(store, publisherId, dateStr, probe) ==
    IF store.state # "ok" THEN Returned(Null, <<>>)
    ELSE LET hit == findHit(store.items, publisherId, dateStr)
         IN  IF hit = Null \/ hit.sourceUrl.kind = "blank" THEN Returned(Null, <<>>)
             ELSE LET imgUrl == normalizeUrl(hit.sourceUrl, KioskoBase)
                  IN  IF imgUrl = NullUrl THEN Returned(Null, <<>>)
                      ELSE IF strictKioskoDate(imgUrl, dateStr) THEN Returned(Null, <<>>)
                      ELSE IF probe = Null THEN Returned(Null, <<imgUrl>>)
                      ELSE IF scoreCoverCandidate(imgUrl, probe,
                                  "today.json:/repo/docs/data/today.json") < 90
                           THEN Returned(Null, <<imgUrl>>)
                      ELSE Returned(Cand(imgUrl, NullStr, "today.json:docs/data/today.json"),
                                    <<imgUrl>>)

CuratedIdle ==
    cStore = Store("missing", <<>>) /\ cProbes = <<>> /\ cResult = Null /\ cPc = "idle"

CuratedInit ==
    /\ cStore \in Stores
    /\ cProbes = <<>>
    /\ cResult = Null
    /\ cPc = "call"

CuratedCall ==
    /\ cPc = "call"
    /\ \E probe \in ProbeOutcomes :
          LET r == fetchCoverFromTodayJson(cStore, PublisherId, DateStr, probe)
          IN  /\ cResult' = r.ret
              /\ cProbes' = r.probes
    /\ cPc' = "done"
    /\ UNCHANGED cStore

-----------------------------------------------------------------------------
(*                               fetchCover                                *)

MinBytes == 8000

(* if (buf.length < 8000) throw ... in probeImage *)
ProbeMinBytes == 8000

UrlNoExt == <<"https:", "pbs.twimg.com", "media", "GxYz123">>

FileExts == {".jpg", ".jpeg", ".png", ".webp", ".avif", ".img"}

(* A harvester's promise: rejected, or fulfilled with null or a candidate. *)
(* A roster entry: its id, its type ("alias" for an alias), the id it is   *)
(* an alias of, and its harvesting configuration (kiosko keys, primary,    *)
(* fallbacks), named after the publisher it belongs to.                    *)
Publisher(id, type, aliasOf, config) ==
    [id |-> id, type |-> type, aliasOf |-> aliasOf, config |-> config]

Marca == Publisher(PublisherId, "newspaper", NullStr, "marca")
MarcaAlias == Publisher("marca-es", "alias", PublisherId, NullStr)
OrphanAlias == Publisher("as-weekend", "alias", "as", NullStr)

Roster == <<Marca, MarcaAlias, OrphanAlias>>

(* The dateStr and outputDir arguments; NullStr for one left out. *)
Given(dateStr, outputDir) == [dateStr |-> dateStr, outputDir |-> outputDir]

(* The calls of the model: publisher and allPublishers (build.js passes no *)
(* roster, test-fetchers.js the enabled publishers).                       *)
(* The last three are turned down by the checks of the arguments.          *)
FetchCalls ==
    { <<Marca, Roster, Given(DateStr, "covers")>>,
      <<MarcaAlias, Roster, Given(DateStr, "covers")>>,
      <<MarcaAlias, <<>>, Given(DateStr, "covers")>>,
      <<OrphanAlias, Roster, Given(DateStr, "covers")>>,
      <<Publisher(NullStr, "newspaper", NullStr, "marca"), Roster, Given(DateStr, "covers")>>,
      <<Marca, Roster, Given(NullStr, "covers")>>,
      <<Marca, Roster, Given(DateStr, NullStr)>> }

(* The three checks at the head of fetchCover: the message of the error    *)
(* thrown, "" when the arguments pass.                                     *)
checkArguments(pub, args) ==
    IF pub.id = NullStr THEN "fetchCover: publisher.id missing"
    ELSE IF args.dateStr = NullStr THEN "fetchCover: dateStr missing"
    ELSE IF args.outputDir = NullStr THEN "fetchCover: outputDir is required"
    ELSE ""

(* new Error(<message>) *)
ArgumentError(message) == [text |-> message, id |-> NullStr, date |-> NullStr, cause |-> NullStr]

(* new Map(allPublishers.map((p) => [p.id, p])).get(id): the last entry of *)
(* that id, Null for undefined.                                            *)
publishersByIdGet(allPublishers, id) ==
    LET hits == { i \in 1..Len(allPublishers) : allPublishers[i].id = id }
    IN  IF hits = {} THEN Null
        ELSE allPublishers[CHOOSE i \in hits : \A j \in hits : j <= i]

resolveAliasOff(p, allPublishers) == p

resolveAlias(p, allPublishers) ==
    IF p.type = "alias" /\ p.aliasOf # NullStr
       THEN (IF publishersByIdGet(allPublishers, p.aliasOf) # Null
                THEN publishersByIdGet(allPublishers, p.aliasOf) ELSE p)
       ELSE p

(* The entry upsertTodayJsonEntry builds, by the fields that identify it. *)
Entry(p, dateStr) == [id |-> <<p.id, dateStr>>, publisherId |-> p.id, date |-> dateStr]

Rejected == [threw |-> TRUE, value |-> Null]
Fulfilled(v) == [threw |-> FALSE, value |-> v]

safeRethrows(promise) == promise

(* try { return await promise } catch { return null } *)
safe(promise) == IF promise.threw THEN Fulfilled(Null) ELSE promise

(* What each of the six harvesters of fetchCover may come to, in call      *)
(* order: today.json, kiosko, frontpages, primary, special, fallbacks.     *)
(* fetchKioskoNet wraps each of its steps in safe and fetchPublisherSpecial *)
(* only returns null: these two never reject.  The today.json reader       *)
(* rejects when path.resolve / process.cwd() throws; its record holds the  *)
(* source URL of an earlier success.  fetchFromPrimary and                 *)
(* fetchFromFallbacks reject for a configured page (callUndeclared) and    *)
(* give null without one.  frontpages.com hands over whatever image of its *)
(* page scores best.                                                       *)
(* A publisher without configuration of its own (an alias entry) has no   *)
(* primary page and no fallbacks: only frontpages.com, asked by id, may    *)
(* have something for it.                                                  *)
HarvestOutcomes(h, p) ==
    CASE p.config = NullStr ->
            IF h = 1 THEN { Rejected, Fulfilled(Null) }
            ELSE IF h = 3
               THEN { Fulfilled(Null),
                      Fulfilled(Cand(UrlB, "https://www.frontpages.com/marca/", "frontpages.com")) }
            ELSE { Fulfilled(Null) }
      [] h = 1 -> { Rejected } \cup
                  { Fulfilled(fetchCoverFromTodayJson(store, p.id, DateStr, probe).ret) :
                      store \in { Store("missing", <<>>),
                                  Store("ok", <<Item(PublisherId, DateStr, RawUrl("abs", K20))>>),
                                  Store("ok", <<Item(PublisherId, DateStr, RawUrl("abs", K19))>>),
                                  Store("ok", <<Item(PublisherId, DateStr, RawUrl("abs", UrlNoExt))>>) },
                      probe \in {Null, BigJpeg} }
      [] h = 2 -> { Fulfilled(Null), Fulfilled(Cand(K20, NullStr, "kiosko.net(direct)")) }
      [] h = 3 -> { Rejected, Fulfilled(Null),
                    Fulfilled(Cand(UrlB, "https://www.frontpages.com/marca/", "frontpages.com")),
                    Fulfilled(Cand(UrlNoExt, "https://www.frontpages.com/marca/", "frontpages.com")),
                    Fulfilled(Cand(K19, "https://www.frontpages.com/marca/", "frontpages.com")) }
      [] h = 4 -> { Rejected, Fulfilled(Null) }
      [] h = 5 -> { Fulfilled(Null) }
      [] h = 6 -> { Rejected, Fulfilled(Null) }

(* new Error(`<text> ${publisher.id} (${dateStr})<: cause>`) *)
Err(text, cause) ==
    [text |-> text, id |-> publisher.id, date |-> DateStr, cause |-> cause]

NoError == [text |-> "", id |-> NullStr, date |-> NullStr, cause |-> NullStr]

harvesterError == Err("harvester failure", NullStr)

notFoundError == Err("Cover not found for", NullStr)

allInvalidSameText == Err("Cover not found for", NullStr)

allInvalidError == Err("All candidates invalid for", NullStr)

(* `${lastErr?.message || String(lastErr)}` *)
allFailedError(last) == Err("All candidate downloads failed for", last)

Scored(cand, score) ==
    [url |-> cand.url, referer |-> cand.referer, source |-> cand.source, _score |-> score]

(* x goes behind every entry that does not sort after it. *)
RECURSIVE insertByScore(_, _)
insertByScore(x, sorted) ==
    IF sorted = <<>> THEN <<x>>
    ELSE IF x._score - sorted[1]._score > 0 THEN <<x>> \o sorted
    ELSE <<sorted[1]>> \o insertByScore(x, Tail(sorted))

sortLeftOut(list) == list

(* ranked.sort((a, b) => (b._score || 0) - (a._score || 0)), a stable sort *)
RECURSIVE sortByScore(_)
sortByScore(list) ==
    IF list = <<>> THEN <<>>
    ELSE insertByScore(list[Len(list)], sortByScore(SubSeq(list, 1, Len(list) - 1)))

extFromContentType(contentType) ==
    CASE contentType = "image/jpeg" -> ".jpg"
      [] contentType = "image/png"  -> ".png"
      [] contentType = "image/webp" -> ".webp"
      [] contentType = "image/avif" -> ".avif"
      [] OTHER                      -> ".jpg"

(* ct.startsWith("image/"), ct.includes("svg") *)
isImageCt(ct) ==
    ct \in {"image/jpeg", "image/png", "image/webp", "image/avif", "image/gif", "image/svg+xml"}
isSvgCt(ct) == ct = "image/svg+xml"

(* What the download request of a candidate may come to: withRetry throws, *)
(* or a 200 response with a content type and a body of so many bytes,      *)
(* whose stream may break before its end.                                  *)
HttpFailure == [ok |-> FALSE, ct |-> "", bytes |-> 0, broken |-> FALSE]
Response(ct, bytes, broken) == [ok |-> TRUE, ct |-> ct, bytes |-> bytes, broken |-> broken]

DownloadResponses ==
    { HttpFailure,
      Response("text/html", 30000, FALSE),
      Response("image/svg+xml", 30000, FALSE),
      Response("image/jpeg", MinBytes - 1, FALSE),
      Response("image/jpeg", 650000, TRUE),
      Response("image/jpeg", MinBytes, FALSE),
      Response("image/webp", 650000, FALSE) }

Downloaded(ok, cause, contentType, dir) ==
    [ok |-> ok, cause |-> cause, contentType |-> contentType, files |-> dir]

(* downloadImage with the response resp, writing to the file of extension  *)
(* ext in the directory dir.                                               *)
downloadImage(resp, ext, dir) ==
    IF ~resp.ok THEN Downloaded(FALSE, "Request failed with status code 404", "", dir)
    ELSE IF ~isImageCt(resp.ct) THEN Downloaded(FALSE, "Download not image", "", dir)
    ELSE IF isSvgCt(resp.ct) THEN Downloaded(FALSE, "SVG rejected", "", dir)
    ELSE IF resp.broken
         THEN Downloaded(FALSE, "aborted", "", [dir EXCEPT ![ext] = "partial"])
    ELSE IF resp.bytes < MinBytes
         THEN Downloaded(FALSE, "Downloaded too small", "", [dir EXCEPT ![ext] = "small"])
    ELSE Downloaded(TRUE, NullStr, resp.ct, [dir EXCEPT ![ext] = "valid"])

renameLeftOut(dir, tmpExt, finalExt) == dir

(* fs.renameSync(tmpPath, finalPath) when the two differ. *)
renameSync(dir, tmpExt, finalExt) ==
    IF tmpExt = finalExt THEN dir
    ELSE [dir EXCEPT ![finalExt] = dir[tmpExt], ![tmpExt] = "absent"]

Attempt(rank, cand, downloaded, cause) ==
    [rank |-> rank, url |-> cand.url, score |-> cand._score,
     downloaded |-> downloaded, cause |-> cause]

Success(cand, finalExt) == [url |-> cand.url, localFile |-> finalExt, source |-> cand.source]

FetchIdle ==
    /\ requested = Null /\ given = Null /\ roster = <<>> /\ publisher = Null /\ ranWith = <<>> /\ stored = Null
    /\ pc = "idle" /\ harvested = <<>> /\ threw = {} /\ rawCandidates = <<>>
    /\ rankI = 0 /\ rankProbes = <<>> /\ ranked = <<>> /\ dI = 0 /\ lastErr = NullStr
    /\ files = [e \in FileExts |-> "absent"] /\ attempts = <<>> /\ todayJson = 0
    /\ error = NoError /\ result = Null

FetchInit ==
    /\ \E call \in FetchCalls : requested = call[1] /\ roster = call[2] /\ given = call[3]
    /\ publisher = requested /\ ranWith = <<>> /\ stored = Null
    /\ pc = "harvest" /\ harvested = <<>> /\ threw = {} /\ rawCandidates = <<>>
    /\ rankI = 0 /\ rankProbes = <<>> /\ ranked = <<>> /\ dI = 0 /\ lastErr = NullStr
    /\ files = [e \in FileExts |-> "absent"] /\ attempts = <<>> /\ todayJson = 0
    /\ error = NoError /\ result = Null

(* The head of fetchCover throws for a missing argument. *)
RejectArguments ==
    /\ pc = "harvest"
    /\ checkArguments(requested, given) # ""
    /\ pc' = "done"
    /\ error' = ArgumentError(checkArguments(requested, given))
    /\ UNCHANGED <<requested, given, roster, publisher, ranWith, stored, harvested, threw,
                   rawCandidates, rankI, rankProbes, ranked, dI, lastErr, files, attempts,
                   todayJson, result>>

(* await safe(<harvester h>): the next element of the list; after the      *)
(* sixth, uniqueByUrl and the check for no candidate at all.  Before the   *)
(* first harvester, publisher = resolveAlias(publisher, publishersById).   *)
Harvest ==
    /\ pc = "harvest"
    /\ checkArguments(requested, given) = ""
    /\ LET h == Len(harvested) + 1
           p == IF h = 1 THEN resolveAlias(publisher, roster) ELSE publisher
       IN  \E promise \in HarvestOutcomes(h, p) :
             LET r == safe(promise)
                 list == Append(harvested, r.value)
                 raw == uniqueByUrl(list)
             IN  /\ publisher' = p
                 /\ ranWith' = Append(ranWith, [id |-> p.id, config |-> p.config])
                 /\ threw' = IF promise.threw THEN threw \cup {h} ELSE threw
                 /\ IF r.threw
                      THEN /\ pc' = "done" /\ error' = harvesterError
                           /\ UNCHANGED <<harvested, rawCandidates>>
                    ELSE IF h < 6
                      THEN /\ harvested' = list
                           /\ UNCHANGED <<pc, error, rawCandidates>>
                    ELSE /\ harvested' = list
                         /\ rawCandidates' = raw
                         /\ IF Len(raw) = 0
                              THEN pc' = "done" /\ error' = notFoundError
                              ELSE pc' = "rank" /\ error' = error
    /\ UNCHANGED <<requested, given, roster, stored, rankI, rankProbes, ranked, dI, lastErr, files,
                   attempts, todayJson, result>>

(* rankCandidates: the probe of the next raw candidate; after the last     *)
(* one the sort, and the check for no ranked candidate.                    *)
RankProbe ==
    /\ pc = "rank"
    /\ LET cand == rawCandidates[rankI + 1]
       IN  \E meta \in ProbeOutcomes :
             LET list == IF meta = Null THEN ranked
                         ELSE Append(ranked,
                                     Scored(cand, scoreCoverCandidate(cand.url, meta, cand.source)))
             IN  /\ rankI' = rankI + 1
                 /\ rankProbes' = Append(rankProbes, [url |-> cand.url, referer |-> cand.referer,
                                                      meta |-> meta])
                 /\ IF rankI + 1 < Len(rawCandidates)
                      THEN /\ ranked' = list
                           /\ UNCHANGED <<pc, error, dI>>
                    ELSE /\ ranked' = sortByScore(list)
                         /\ IF Len(list) = 0
                              THEN pc' = "done" /\ error' = allInvalidError /\ dI' = dI
                              ELSE pc' = "download" /\ error' = error /\ dI' = 1
    /\ UNCHANGED <<requested, given, roster, publisher, ranWith, stored, harvested, threw,
                   rawCandidates, lastErr, files, attempts, todayJson, result>>

catchFirstError(prev, cause) == IF prev = NullStr THEN cause ELSE prev

(* catch (e) { lastErr = e } *)
catchError(prev, cause) == cause

DownloadAgain(last) ==
    /\ dI' = dI /\ lastErr' = last
    /\ UNCHANGED <<pc, error, result>>

(* One turn of the download loop, and the throw after its last turn. *)
DownloadNext(last) ==
    IF dI < Len(ranked)
       THEN /\ dI' = dI + 1 /\ lastErr' = last
            /\ UNCHANGED <<pc, error, result>>
       ELSE /\ pc' = "done" /\ lastErr' = last /\ error' = allFailedError(last)
            /\ UNCHANGED <<dI, result>>

(* The ranked candidate is turned down by the date check: continue. *)
DownloadSkip ==
    /\ pc = "download"
    /\ strictKioskoDate(ranked[dI].url, DateStr)
    /\ DownloadNext(lastErr)
    /\ UNCHANGED <<requested, given, roster, publisher, ranWith, stored, harvested, threw,
                   rawCandidates, rankI, rankProbes, ranked, files, attempts, todayJson>>

(* The download of the ranked candidate fails: caught, lastErr = e. *)
DownloadFail ==
    /\ pc = "download"
    /\ ~strictKioskoDate(ranked[dI].url, DateStr)
    /\ \E resp \in DownloadResponses :
          LET cand == ranked[dI]
              urlExt == extname(cand.url)
              tmpExt == IF urlExt # "" THEN urlExt ELSE ".img"
              d == downloadImage(resp, tmpExt, files)
          IN  /\ ~d.ok
              /\ files' = d.files
              /\ attempts' = Append(attempts, Attempt(dI, cand, FALSE, d.cause))
              /\ DownloadNext(catchError(lastErr, d.cause))
    /\ UNCHANGED <<requested, given, roster, publisher, ranWith, stored, harvested, threw,
                   rawCandidates, rankI, rankProbes, ranked, todayJson>>

(* The download succeeds: rename, then upsertTodayJsonEntry, which writes  *)
(* today.json and returns, or throws into the same catch.                  *)
DownloadOk ==
    /\ pc = "download"
    /\ ~strictKioskoDate(ranked[dI].url, DateStr)
    /\ \E resp \in DownloadResponses, upsertThrows \in BOOLEAN :
          LET cand == ranked[dI]
              urlExt == extname(cand.url)
              tmpExt == IF urlExt # "" THEN urlExt ELSE ".img"
              d == downloadImage(resp, tmpExt, files)
              finalExt == IF urlExt # "" THEN urlExt ELSE extFromContentType(d.contentType)
          IN  /\ d.ok
              /\ files' = renameSync(d.files, tmpExt, finalExt)
              /\ IF upsertThrows
                   THEN /\ attempts' = Append(attempts,
                                              Attempt(dI, cand, TRUE, "EACCES: permission denied"))
                        /\ DownloadNext(catchError(lastErr, "EACCES: permission denied"))
                        /\ UNCHANGED <<todayJson, stored>>
                   ELSE /\ attempts' = Append(attempts, Attempt(dI, cand, TRUE, NullStr))
                        /\ todayJson' = todayJson + 1
                        /\ stored' = Entry(publisher, DateStr)
                        /\ result' = Success(cand, finalExt)
                        /\ pc' = "done"
                        /\ UNCHANGED <<dI, lastErr, error>>
    /\ UNCHANGED <<requested, given, roster, publisher, ranWith, harvested, threw, rawCandidates,
                   rankI, rankProbes, ranked>>

-----------------------------------------------------------------------------
(*                     scoreCoverCandidate, called alone                   *)

(* The URL with every "logo" of its text cut out. *)
cutLogoToken(t) ==
    CASE t = "logo.jpg"        -> ".jpg"
      [] t = "logo-banner.png" -> "-banner.png"
      [] t = "team-logo.png"   -> "team-.png"
      [] t = "cologover.jpg"   -> "cover.jpg"
      [] OTHER                 -> t

cutLogo(url) == [i \in 1..Len(url) |-> cutLogoToken(url[i])]

ScoreUrls ==
    { UrlA, UrlB, UrlC,
      <<"https:", "www.marca.com", "logo.jpg">>,
      <<"https:", "www.marca.com", "img", "team-logo.png">>,
      <<"https:", "www.marca.com", "logo-banner.png">>,
      <<"https:", "www.marca.com", "wp-content/uploads", "logo.jpg">>,
      <<"https:", "img.kiosko.net", "2025/12/20", "es", "cologover.jpg">> }

ScoreSources == {"today.json:docs/data/today.json", "kiosko.net:direct", "meta"}

(* Byte sizes on both sides of every threshold of the size rule. *)
ScoreBytes ==
    {8000, 39999, 40000, 150000, 150001, 400000, 400001, 900000, 900001, 2000000}

(* width and height of a probe result: unknown, or sniffed. *)
ScoreDims == {<<NullDim, NullDim>>, <<1200, 1600>>, <<800, 1000>>, <<300, 80>>, <<600, 500>>}

ScoreMetas ==
    {Null} \cup { Meta("image/jpeg", b, d[1], d[2]) : b \in ScoreBytes, d \in ScoreDims }

withBytes(meta, b) == IF meta = Null THEN Null ELSE [meta EXCEPT !.bytes = b]

ScoreIdle ==
    /\ sUrl = NullUrl /\ sSource = NullStr /\ sMeta = Null /\ sBytes2 = 0
    /\ sScore = 0 /\ sScore2 = 0 /\ sScoreCut = 0 /\ sPc = "idle"

ScoreInit ==
    /\ sUrl \in ScoreUrls
    /\ sSource \in ScoreSources
    /\ sMeta \in ScoreMetas
    /\ sBytes2 \in ScoreBytes
    /\ sScore = 0 /\ sScore2 = 0 /\ sScoreCut = 0
    /\ sPc = "call"

ScoreCall ==
    /\ sPc = "call"
    /\ sScore' = scoreCoverCandidate(sUrl, sMeta, sSource)
    /\ sScore2' = scoreCoverCandidate(sUrl, withBytes(sMeta, sBytes2), sSource)
    /\ sScoreCut' = scoreCoverCandidate(cutLogo(sUrl), sMeta, sSource)
    /\ sPc' = "done"
    /\ UNCHANGED <<sUrl, sSource, sMeta, sBytes2>>

-----------------------------------------------------------------------------
(*                    Header sniffing: PNG, JPEG, WebP                     *)

(* A Buffer: its length, and its leading bytes; every byte after them, up  *)
(* to the length, is 0.  Offsets count from 0 as in the code.              *)
Buf(head, len) == [head |-> head, len |-> len]

BufOf(bytes) == Buf(bytes, Len(bytes))

(* buf[i], for i < buf.length *)
byteAt(buf, i) == IF i < Len(buf.head) THEN buf.head[i + 1] ELSE 0

(* { width, height } *)
Size(w, h) == [width |-> w, height |-> h]

(* A RangeError out of a read past the end of the buffer. *)
Thrown == [thrown |-> TRUE]

(* buf.slice(a, b): the end is clamped to the length. *)
slice(buf, a, b) ==
    LET e == IF b < buf.len THEN b ELSE buf.len
    IN  [k \in 1..(IF e > a THEN e - a ELSE 0) |-> byteAt(buf, a + k - 1)]

(* bytes.toString("ascii"), as character codes: decoding a Buffer as ascii *)
(* clears the highest bit of every byte.                                   *)
ascii(bytes) == [k \in 1..Len(bytes) |-> bytes[k] % 128]

(* buf.readUInt16BE(i), buf.readUInt32BE(i): the bytes are in range where  *)
(* these are applied.                                                      *)
readUInt16BE(buf, i) == byteAt(buf, i) * 256 + byteAt(buf, i + 1)

readUInt32BE(buf, i) ==
    ((byteAt(buf, i) * 256 + byteAt(buf, i + 1)) * 256 + byteAt(buf, i + 2)) * 256
        + byteAt(buf, i + 3)

(* buf[i] | (buf[i + 1] << 8) | (buf[i + 2] << 16) *)
le24(buf, i) == byteAt(buf, i) + 256 * byteAt(buf, i + 1) + 65536 * byteAt(buf, i + 2)

(* Character codes of the texts the sniffers compare with. *)
PngSignature == <<137, 80, 78, 71, 13, 10, 26, 10>>
TextIHDR == <<73, 72, 68, 82>>
TextIDAT == <<73, 68, 65, 84>>
TextRIFF == <<82, 73, 70, 70>>
TextWEBP == <<87, 69, 66, 80>>
TextVP8X == <<86, 80, 56, 88>>
TextVP8L == <<86, 80, 56, 76>>

getPngSize(buf) ==
    IF buf.len < 24 THEN Null
    ELSE IF slice(buf, 0, 8) # PngSignature THEN Null
    ELSE IF ascii(slice(buf, 12, 16)) # TextIHDR THEN Null
    ELSE IF 24 > buf.len THEN Thrown
    ELSE Size(readUInt32BE(buf, 16), readUInt32BE(buf, 20))

isSOF(marker) ==
    \/ marker >= 192 /\ marker <= 195
    \/ marker >= 197 /\ marker <= 199
    \/ marker >= 201 /\ marker <= 203
    \/ marker >= 205 /\ marker <= 207

(* The while loop of getJpegSize from offset i on.  From the end of the    *)
(* leading bytes on every byte is 0, no 0xff is met and the loop runs out. *)
RECURSIVE jpegScan(_, _)
jpegScan(buf, i) ==
    IF ~(i + 9 < buf.len) \/ i >= Len(buf.head) THEN Null
    ELSE IF byteAt(buf, i) # 255 THEN jpegScan(buf, i + 1)
    ELSE LET marker == byteAt(buf, i + 1)
             j == i + 2
             len == readUInt16BE(buf, j)
         IN  IF marker = 217 \/ marker = 218 THEN Null
             ELSE IF j + 2 > buf.len THEN Null
             ELSE IF len = 0 \/ j + len > buf.len THEN Null
             ELSE IF isSOF(marker) /\ j + 7 < buf.len
                  THEN (IF j + 7 > buf.len THEN Thrown
                        ELSE Size(readUInt16BE(buf, j + 5), readUInt16BE(buf, j + 3)))
             ELSE jpegScan(buf, j + len)

getJpegSize(buf) ==
    IF buf.len < 4 THEN Null
    ELSE IF byteAt(buf, 0) # 255 \/ byteAt(buf, 1) # 216 THEN Null
    ELSE jpegScan(buf, 2)

(* The for loop of getWebpSize from offset i on; the tag is not met among  *)
(* the zero bytes after the leading ones.                                  *)
RECURSIVE webpScan(_, _)
webpScan(buf, i) ==
    IF ~(i + 16 < buf.len) \/ i >= Len(buf.head) THEN Null
    ELSE IF ascii(slice(buf, i, i + 4)) = TextVP8X /\ i + 14 < buf.len
         THEN Size(1 + le24(buf, i + 8), 1 + le24(buf, i + 11))
    ELSE webpScan(buf, i + 1)

getWebpSize(buf) ==
    IF buf.len < 30 THEN Null
    ELSE IF ascii(slice(buf, 0, 4)) # TextRIFF THEN Null
    ELSE IF ascii(slice(buf, 8, 12)) # TextWEBP THEN Null
    ELSE webpScan(buf, 12)

(* (contentType || "").split(";")[0].trim().toLowerCase() *)
mimeOf(contentType) ==
    CASE contentType \in {"image/jpeg", "image/jpeg; charset=binary"} -> "image/jpeg"
      [] contentType = "image/png"  -> "image/png"
      [] contentType = "image/webp" -> "image/webp"
      [] OTHER                      -> contentType

getImageSizeFromBuffer(contentType, buf) ==
    LET ct == mimeOf(contentType)
    IN  CASE ct = "image/png"  -> getPngSize(buf)
          [] ct = "image/jpeg" -> getJpegSize(buf)
          [] ct = "image/webp" -> getWebpSize(buf)
          [] OTHER             -> Null

(* ---- Buffers handed to the sniffers ---- *)

RECURSIVE Zeros(_)
Zeros(n) == IF n = 0 THEN <<>> ELSE <<0>> \o Zeros(n - 1)

(* JPEG: SOI, then marker segments.  A marker may be preceded by fill      *)
(* bytes 0xff (ITU-T T.81, B.1.1.2), which a decoder skips.                *)
JpegPartKinds == {"app0", "app1", "dht", "fill", "sof0", "sof2", "sos", "eoi"}

Sof0Dims == Size(1200, 1600)
Sof2Dims == Size(300, 80)

jpegPartBytes(kind) ==
    CASE kind = "app0" -> <<255, 224, 0, 4, 74, 70>>
      \* an APP1 segment whose payload holds the bytes ff c0 00 0b
      [] kind = "app1" -> <<255, 225, 0, 6, 255, 192, 0, 11>>
      [] kind = "dht"  -> <<255, 196, 0, 4, 0, 1>>
      [] kind = "fill" -> <<255>>
      \* length 11, precision 8, height 1600, width 1200, one component
      [] kind = "sof0" -> <<255, 192, 0, 11, 8, 6, 64, 4, 176, 1, 1, 17, 0>>
      \* progressive: height 80, width 300
      [] kind = "sof2" -> <<255, 194, 0, 11, 8, 0, 80, 1, 44, 1, 1, 17, 0>>
      [] kind = "sos"  -> <<255, 218, 0, 8, 1, 1, 0, 0, 63, 0, 0, 0>>
      [] kind = "eoi"  -> <<255, 217>>

RECURSIVE jpegBytes(_)
jpegBytes(parts) ==
    IF parts = <<>> THEN <<>> ELSE jpegPartBytes(Head(parts)) \o jpegBytes(Tail(parts))

(* The frame a decoder finds: the first SOF before any SOS or EOI. *)
RECURSIVE jpegFrame(_)
jpegFrame(parts) ==
    IF parts = <<>> THEN Null
    ELSE CASE Head(parts) = "sof0" -> Sof0Dims
           [] Head(parts) = "sof2" -> Sof2Dims
           [] Head(parts) \in {"sos", "eoi"} -> Null
           [] OTHER -> jpegFrame(Tail(parts))

SniffInput(ct, buf, format, dims) ==
    [ct |-> ct, buf |-> buf, truth |-> [format |-> format, dims |-> dims]]

JpegInputs ==
    { SniffInput("image/jpeg", BufOf(<<255, 216>> \o jpegBytes(parts) \o Zeros(pad)),
                 "jpeg", jpegFrame(parts)) :
        parts \in SeqsUpTo(JpegPartKinds, MaxParts), pad \in {0, 10} }

(* PNG: signature, chunk length, chunk type, then the IHDR fields. *)
be32(b) == ((b[1] * 256 + b[2]) * 256 + b[3]) * 256 + b[4]

PngLayout(sig, tag, w, h) == sig \o <<0, 0, 0, 13>> \o tag \o w \o h \o <<8, 2, 0, 0, 0, 0, 0, 0, 0>>

PngInputs ==
    { SniffInput("image/png", BufOf(SubSeq(PngLayout(sig, tag, w, h), 1, cut)), "png",
                 IF sig = PngSignature /\ tag = TextIHDR /\ cut >= 24
                    THEN Size(be32(w), be32(h)) ELSE Null) :
        sig \in {PngSignature, <<9, 80, 78, 71, 13, 10, 26, 10>>},
        tag \in {TextIHDR, TextIDAT, <<201, 72, 68, 82>>},
        w \in {<<0, 0, 4, 176>>, <<127, 255, 255, 255>>},
        h \in {<<0, 0, 6, 64>>, <<0, 1, 0, 0>>},
        cut \in {7, 16, 23, 24, 33} }

(* WebP: RIFF header, then the first chunk.  A VP8X chunk is its tag, its  *)
(* size (10), one byte of flags, three reserved bytes, canvas width minus  *)
(* one and canvas height minus one, 24 bits each, little-endian.           *)
le3(n) == <<n % 256, (n \div 256) % 256, n \div 65536>>

WebpChunk(tag, flags, w1, h1) ==
    IF tag = TextVP8X
       THEN tag \o <<10, 0, 0, 0>> \o <<flags, 0, 0, 0>> \o le3(w1) \o le3(h1)
       ELSE tag \o <<10, 0, 0, 0>> \o <<47, 175, 4, 0, 0, 0, 0, 0, 0, 0>>

WebpInputs ==
    { SniffInput("image/webp",
                 BufOf(riff \o <<22, 0, 0, 0>> \o form \o WebpChunk(tag, flags, w1, h1)
                            \o Zeros(pad)),
                 "webp",
                 IF riff = TextRIFF /\ form = TextWEBP /\ tag = TextVP8X
                    THEN Size(w1 + 1, h1 + 1) ELSE Null) :
        riff \in {TextRIFF, <<82, 73, 70, 88>>},
        form \in {TextWEBP, <<87, 65, 86, 69>>},
        tag \in {TextVP8X, TextVP8L},
        flags \in {0, 16},
        w1 \in {1199, 299},
        h1 \in {1599, 79},
        pad \in {0, 8} }

SniffIdle ==
    /\ nCt = NullStr /\ nBuf = Null /\ nTruth = Null /\ nSize = Null /\ nPc = "idle"

SniffInit ==
    /\ \E in \in JpegInputs \cup PngInputs \cup WebpInputs :
          /\ nCt = in.ct
          /\ nBuf = in.buf
          /\ nTruth = in.truth
    /\ nSize = Null
    /\ nPc = "call"

SniffCall ==
    /\ nPc = "call"
    /\ nSize' = getImageSizeFromBuffer(nCt, nBuf)
    /\ nPc' = "done"
    /\ UNCHANGED <<nCt, nBuf, nTruth>>

-----------------------------------------------------------------------------
(*                               probeImage                                *)

(* A 200 / 206 response to the ranged request: its content-type header     *)
(* (lower-cased; "" when absent), the sampled bytes, the total of its      *)
(* content-range header and its content-length (0 when absent).            *)
ProbeResponse(ct, buf, rangeTotal, contentLength) ==
    [ok |-> TRUE, ct |-> ct, buf |-> buf, rangeTotal |-> rangeTotal,
     contentLength |-> contentLength]

(* withRetry threw: no response. *)
ProbeHttpFailure ==
    [ok |-> FALSE, ct |-> "", buf |-> Buf(<<>>, 0), rangeTotal |-> 0, contentLength |-> 0]

ProbeError(message) == [error |-> message]

probeImageNoFloor(resp) ==
    IF ~resp.ok THEN ProbeError("Request failed with status code 404")
    ELSE IF ~isImageCt(resp.ct) THEN ProbeError("Not an image")
    ELSE IF isSvgCt(resp.ct) THEN ProbeError("SVG rejected")
    ELSE LET totalBytes == IF resp.rangeTotal # 0 THEN resp.rangeTotal ELSE resp.contentLength
             size == getImageSizeFromBuffer(resp.ct, resp.buf)
         IN  IF size = Thrown THEN ProbeError("RangeError")
             ELSE Meta(resp.ct,
                       IF totalBytes # 0 THEN totalBytes ELSE resp.buf.len,
                       IF size = Null THEN NullDim ELSE size.width,
                       IF size = Null THEN NullDim ELSE size.height)

(* probeImage, from the response on. *)
probeImage(resp) ==
    IF ~resp.ok THEN ProbeError("Request failed with status code 404")
    ELSE IF ~isImageCt(resp.ct) THEN ProbeError("Not an image")
    ELSE IF isSvgCt(resp.ct) THEN ProbeError("SVG rejected")
    ELSE IF resp.buf.len < ProbeMinBytes THEN ProbeError("Image probe too small")
    ELSE LET totalBytes == IF resp.rangeTotal # 0 THEN resp.rangeTotal ELSE resp.contentLength
             size == getImageSizeFromBuffer(resp.ct, resp.buf)
         IN  IF size = Thrown THEN ProbeError("RangeError")
             ELSE Meta(resp.ct,
                       IF totalBytes # 0 THEN totalBytes ELSE resp.buf.len,
                       IF size = Null THEN NullDim ELSE size.width,
                       IF size = Null THEN NullDim ELSE size.height)

(* The leading bytes of the sampled prefix, by the header they hold. *)
ProbeHeadKinds == {"jpeg", "jpeg-noframe", "png", "webp-vp8x", "webp-vp8l", "blank"}

probeHead(kind) ==
    CASE kind = "jpeg"         -> <<255, 216>> \o jpegBytes(<<"app0", "sof0">>)
      [] kind = "jpeg-noframe" -> <<255, 216>> \o jpegBytes(<<"app0", "sos">>)
      [] kind = "png"          -> PngLayout(PngSignature, TextIHDR, <<0, 0, 4, 176>>, <<0, 0, 6, 64>>)
      [] kind = "webp-vp8x"    -> TextRIFF \o <<22, 0, 0, 0>> \o TextWEBP
                                      \o WebpChunk(TextVP8X, 0, 1199, 1599)
      [] kind = "webp-vp8l"    -> TextRIFF \o <<22, 0, 0, 0>> \o TextWEBP
                                      \o WebpChunk(TextVP8L, 0, 1199, 1599)
      [] kind = "blank"        -> <<>>

(* The content type whose header the kind holds, "" if it holds none. *)
headerOfKind(kind) ==
    CASE kind = "jpeg"      -> "image/jpeg"
      [] kind = "png"       -> "image/png"
      [] kind = "webp-vp8x" -> "image/webp"
      [] OTHER              -> ""

ProbeCts ==
    {"", "text/html", "image/svg+xml", "image/jpeg", "image/png", "image/webp", "image/gif"}

(* Lengths of the sampled prefix: Range asks for bytes 0-65535. *)
ProbeLens == {ProbeMinBytes - 1, ProbeMinBytes, 65536}

ProbeInit ==
    /\ bKind \in ProbeHeadKinds
    /\ bResp \in {ProbeHttpFailure} \cup
           { ProbeResponse(ct, Buf(probeHead(bKind), len), total, length) :
               ct \in ProbeCts, len \in ProbeLens, total \in {0, 650000}, length \in {0, 65536} }
    /\ bResult = Null
    /\ bPc = "call"

ProbeIdle ==
    /\ bResp = Null /\ bKind = NullStr /\ bResult = Null /\ bPc = "idle"

ProbeCall ==
    /\ bPc = "call"
    /\ bResult' = probeImage(bResp)
    /\ bPc' = "done"
    /\ UNCHANGED <<bResp, bKind>>

-----------------------------------------------------------------------------
(*        fetchCover calls running concurrently: files and today.json      *)
(*                                                                         *)
(* The calls run in one process: a call is suspended only at an await, so  *)
(* the code between two awaits is one step.  Each call is followed from    *)
(* the download request of its candidate on.                               *)

RaceCalls == {1, 2}

As == Publisher("as", "newspaper", NullStr, "as")
Sport == Publisher("sport", "newspaper", NullStr, "sport")

RaceDates == {"2025-12-19", DateStr}

(* test-fetchers.js passes one directory for every publisher, build.js the *)
(* directory IMAGES_DIR/<country>/<id> of the publisher.                   *)
SharedDir == "covers-test"
publisherDir(pub) == IF pub.id = "marca" THEN "docs/data/images/es/marca"
                     ELSE "docs/data/images/es/as"

RaceDirs == {SharedDir, publisherDir(Marca), publisherDir(As)}

(* path.join(outputDir, `${dateStr}-medium${ext}`) *)
pathNoDate(outputDir, dateStr, ext) == <<outputDir, "medium", ext>>

mediumPath(outputDir, dateStr, ext) == <<outputDir, dateStr, "medium", ext>>

RacePaths ==
    { mediumPath(d, t, e) : d \in RaceDirs, t \in RaceDates, e \in {".jpg", ".img"} }

RaceCall(pub, dateStr, outputDir, urlExt) ==
    [publisher |-> pub, dateStr |-> dateStr, outputDir |-> outputDir, urlExt |-> urlExt]

tmpPathOf(call) ==
    mediumPath(call.outputDir, call.dateStr, IF call.urlExt # "" THEN call.urlExt ELSE ".img")

(* The response is a JPEG: extFromContentType gives .jpg. *)
finalPathOf(call) ==
    mediumPath(call.outputDir, call.dateStr,
               IF call.urlExt # "" THEN call.urlExt ELSE extFromContentType("image/jpeg"))

StoreEntry(pub, dateStr, sourceUrl) ==
    [id |-> <<pub.id, dateStr>>, publisherId |-> pub.id, date |-> dateStr,
     sourceUrl |-> sourceUrl]

(* String(a.publisherId).localeCompare(String(b.publisherId)) > 0 *)
idAfter(a, b) ==
    LET rank(id) == CASE id = "as" -> 1 [] id = "marca" -> 2 [] id = "sport" -> 3
    IN  rank(a) > rank(b)

RECURSIVE insertByPublisherId(_, _)
insertByPublisherId(x, sorted) ==
    IF sorted = <<>> THEN <<x>>
    ELSE IF idAfter(sorted[Len(sorted)].publisherId, x.publisherId)
         THEN Append(insertByPublisherId(x, SubSeq(sorted, 1, Len(sorted) - 1)),
                     sorted[Len(sorted)])
    ELSE Append(sorted, x)

(* arr.sort(...), a stable sort *)
RECURSIVE sortByPublisherId(_)
sortByPublisherId(arr) ==
    IF arr = <<>> THEN <<>>
    ELSE insertByPublisherId(arr[Len(arr)], sortByPublisherId(SubSeq(arr, 1, Len(arr) - 1)))

RECURSIVE withoutKey(_, _, _)
withoutKey(arr, publisherId, dateStr) ==
    IF arr = <<>> THEN <<>>
    ELSE IF arr[1].publisherId = publisherId /\ arr[1].date = dateStr
         THEN withoutKey(Tail(arr), publisherId, dateStr)
    ELSE <<arr[1]>> \o withoutKey(Tail(arr), publisherId, dateStr)

upsertOverwrites(arr, entry) == <<entry>>

(* upsertTodayJsonEntry on the array read from today.json: filter, push,   *)
(* sort; the result is what it writes.  It has no await.                   *)
upsertTodayJsonEntry(arr, entry) ==
    sortByPublisherId(Append(withoutKey(arr, entry.publisherId, entry.date), entry))

(* The URL of the candidate each call downloads. *)
candidateUrlOf(c) == IF c = 1 THEN UrlA ELSE UrlB

File(exists, writers) == [exists |-> exists, writers |-> writers]

(* The call for marca's cover of the day, next to a call for another       *)
(* publisher, another date, or both.                                       *)
RaceInit ==
    /\ \E other \in { <<As, DateStr>>, <<Marca, "2025-12-19">>, <<As, "2025-12-19">> },
          shared \in BOOLEAN, ext1 \in {".jpg", ""}, ext2 \in {".jpg", ""} :
          kCalls = [c \in RaceCalls |->
                      IF c = 1
                         THEN RaceCall(Marca, DateStr,
                                       IF shared THEN SharedDir ELSE publisherDir(Marca), ext1)
                         ELSE RaceCall(other[1], other[2],
                                       IF shared THEN SharedDir ELSE publisherDir(other[1]),
                                       ext2)]
    /\ kPc = [c \in RaceCalls |-> "request"]
    /\ kTouched = [c \in RaceCalls |-> {}]
    /\ kFiles = [f \in RacePaths |-> File(FALSE, {})]
    /\ kStore \in { <<>>,
                    <<StoreEntry(Sport, DateStr, UrlC)>>,
                    <<StoreEntry(Marca, DateStr, UrlC), StoreEntry(Sport, DateStr, UrlC)>> }

RaceIdle ==
    /\ kCalls = <<>> /\ kPc = <<>> /\ kTouched = <<>> /\ kFiles = <<>> /\ kStore = <<>>

(* The download request is answered with an image: pipeline(res.data,      *)
(* fs.createWriteStream(tmpPath)) opens the file, emptying it.             *)
RaceOpen(c) ==
    /\ kPc[c] = "request"
    /\ kPc' = [kPc EXCEPT ![c] = "piping"]
    /\ kFiles' = [kFiles EXCEPT ![tmpPathOf(kCalls[c])] = File(TRUE, {})]
    /\ kTouched' = [kTouched EXCEPT ![c] = @ \cup {tmpPathOf(kCalls[c])}]
    /\ UNCHANGED <<kCalls, kStore>>

(* The request fails, or its answer is no image: the call fails. *)
RaceReject(c) ==
    /\ kPc[c] = "request"
    /\ kPc' = [kPc EXCEPT ![c] = "failed"]
    /\ UNCHANGED <<kCalls, kTouched, kFiles, kStore>>

(* The body is written through and the pipeline ends. *)
RacePipe(c) ==
    /\ kPc[c] = "piping"
    /\ kPc' = [kPc EXCEPT ![c] = "piped"]
    /\ kFiles' = [kFiles EXCEPT ![tmpPathOf(kCalls[c])] = File(TRUE, @.writers \cup {c})]
    /\ kTouched' = [kTouched EXCEPT ![c] = @ \cup {tmpPathOf(kCalls[c])}]
    /\ UNCHANGED <<kCalls, kStore>>

(* fs.statSync(tmpPath) and the size check; downloadImage returns. *)
RaceValidate(c) ==
    /\ kPc[c] = "piped"
    /\ \E bigEnough \in BOOLEAN :
          kPc' = [kPc EXCEPT ![c] = IF bigEnough /\ kFiles[tmpPathOf(kCalls[c])].exists
                                       THEN "validated" ELSE "failed"]
    /\ kTouched' = [kTouched EXCEPT ![c] = @ \cup {tmpPathOf(kCalls[c])}]
    /\ UNCHANGED <<kCalls, kFiles, kStore>>

(* Back in fetchCover: renameSync when the paths differ, then              *)
(* upsertTodayJsonEntry, then return; if one of them throws the call fails. *)
RaceCommit(c) ==
    /\ kPc[c] = "validated"
    /\ LET call == kCalls[c]
           tmp == tmpPathOf(call)
           final == finalPathOf(call)
       IN  /\ kTouched' = [kTouched EXCEPT ![c] = @ \cup {tmp, final}]
           /\ IF tmp # final /\ ~kFiles[tmp].exists
                THEN /\ kPc' = [kPc EXCEPT ![c] = "failed"]
                     /\ UNCHANGED <<kFiles, kStore>>
                ELSE /\ kFiles' = IF tmp = final THEN kFiles
                                  ELSE [kFiles EXCEPT ![final] = kFiles[tmp],
                                                      ![tmp] = File(FALSE, {})]
                     /\ \E upsertThrows \in BOOLEAN :
                          IF upsertThrows
                             THEN /\ kPc' = [kPc EXCEPT ![c] = "failed"]
                                  /\ UNCHANGED kStore
                             ELSE /\ kPc' = [kPc EXCEPT ![c] = "done"]
                                  /\ kStore' = upsertTodayJsonEntry(
                                                  kStore,
                                                  StoreEntry(call.publisher, call.dateStr,
                                                             candidateUrlOf(c)))
    /\ UNCHANGED kCalls

-----------------------------------------------------------------------------
(*          The batch drivers: build.js main, test-fetchers.js run         *)

BatchIds == {"marca", "as", "sport", "lequipe"}

RosterEntry(id, enabled) == [id |-> id, enabled |-> enabled]

(* Rosters: publishers of distinct ids, each enabled or not. *)
BatchRosters ==
    { r \in SeqsUpTo({ RosterEntry(id, en) : id \in BatchIds, en \in BOOLEAN }, MaxRoster) :
        \A i, j \in 1..Len(r) : i # j => r[i].id # r[j].id }

(* What a call of fetchCover comes to: it returns a result, it throws, or  *)
(* (the fetch-based fetchCover) it returns null.                           *)
FetchOutcomes == {"result", "throws", "null"}

(* results.push({ ..., imageMediumUrl, sourceUrl, ... }) *)
SuccessRecord(pub) == [publisherId |-> pub.id, ok |-> TRUE]

(* results.push({ ..., error: e.message, ... }) *)
FailureRecord(pub) == [publisherId |-> pub.id, ok |-> FALSE]

buildCatchSilent(results, pub) == results

(* catch (e) { ...; results.push({ ..., error: e.message, ... }) } *)
buildCatch(results, pub) == Append(results, FailureRecord(pub))

(* The try block of main: reading result.localFile of a null result throws *)
(* before the push.                                                        *)
buildTry(results, pub, outcome) ==
    IF outcome = "result" THEN Append(results, SuccessRecord(pub))
    ELSE buildCatch(results, pub)

BatchIdle ==
    /\ tDriver = NullStr /\ tRoster = <<>> /\ tI = 0 /\ tResults = <<>>
    /\ tOk = <<>> /\ tFail = <<>> /\ tWritten = Null /\ tPc = "idle"

BatchInit ==
    /\ tDriver \in {"build", "test"}
    /\ tRoster \in BatchRosters
    /\ tI = 0 /\ tResults = <<>> /\ tOk = <<>> /\ tFail = <<>> /\ tWritten = Null
    /\ tPc = "loop"

(* One turn of the for loop of main: a disabled publisher is passed over,  *)
(* an enabled one gets its record from the try or from the catch.          *)
BuildTurn ==
    /\ tDriver = "build" /\ tPc = "loop" /\ tI < Len(tRoster)
    /\ LET pub == tRoster[tI + 1]
       IN  IF ~pub.enabled THEN tResults' = tResults
           ELSE \E outcome \in FetchOutcomes : tResults' = buildTry(tResults, pub, outcome)
    /\ tI' = tI + 1
    /\ UNCHANGED <<tDriver, tRoster, tOk, tFail, tWritten, tPc>>

(* After the loop main writes results to today.json. *)
BuildFinish ==
    /\ tDriver = "build" /\ tPc = "loop" /\ tI = Len(tRoster)
    /\ tWritten' = [results |-> tResults]
    /\ tPc' = "done"
    /\ UNCHANGED <<tDriver, tRoster, tI, tResults, tOk, tFail>>

(* One turn of the for loop of run, which goes over the enabled publishers *)
(* only: pubs = config.publishers.filter((p) => p.enabled).  Reading       *)
(* res.source of a null result throws before results.ok.push.              *)
TestTurn ==
    /\ tDriver = "test" /\ tPc = "loop" /\ tI < Len(tRoster)
    /\ LET pub == tRoster[tI + 1]
       IN  IF ~pub.enabled THEN UNCHANGED <<tOk, tFail>>
           ELSE \E outcome \in FetchOutcomes :
                  IF outcome = "result"
                     THEN tOk' = Append(tOk, [id |-> pub.id]) /\ tFail' = tFail
                     ELSE tFail' = Append(tFail, [id |-> pub.id]) /\ tOk' = tOk
    /\ tI' = tI + 1
    /\ UNCHANGED <<tDriver, tRoster, tResults, tWritten, tPc>>

(* After the loop run writes results to log-<date>.json. *)
TestFinish ==
    /\ tDriver = "test" /\ tPc = "loop" /\ tI = Len(tRoster)
    /\ tWritten' = [ok |-> tOk, fail |-> tFail]
    /\ tPc' = "done"
    /\ UNCHANGED <<tDriver, tRoster, tI, tResults, tOk, tFail>>

-----------------------------------------------------------------------------
(*            buildKioskoPathKeys and fetchKioskoNetDirectByKeys           *)

(* Text that the code takes apart is a sequence of characters, each a      *)
(* one-character string; "E-acute" stands for the letter E with an acute   *)
(* accent.                                                                 *)
Letters ==
    {"a", "b", "c", "d", "e", "f", "g", "h", "i", "j", "k", "l", "m", "n", "o", "p", "q",
     "r", "s", "t", "u", "v", "w", "x", "y", "z",
     "0", "1", "2", "3", "4", "5", "6", "7", "8", "9"}

(* toLowerCase() *)
toLowerCase(c) ==
    CASE c = "A" -> "a"
      [] c = "B" -> "b"
      [] c = "L" -> "l"
      [] c = "M" -> "m"
      [] c = "D" -> "d"
      [] c = "S" -> "s"
      [] c = "E-acute" -> "e-acute"
      [] OTHER -> c

(* normalize("NFD").replace(/[\u0300-\u036f]/g, ""): the base letter. *)
stripMarks(c) == IF c = "e-acute" THEN "e" ELSE c

(* A run of blanks becomes one blank. *)
RECURSIVE squeeze(_)
squeeze(t) ==
    IF Len(t) <= 1 THEN t
    ELSE IF t[1] = " " /\ t[2] = " " THEN squeeze(Tail(t))
    ELSE <<t[1]>> \o squeeze(Tail(t))

RECURSIVE trim(_)
trim(t) ==
    IF t = <<>> THEN t
    ELSE IF t[1] = " " THEN trim(Tail(t))
    ELSE IF t[Len(t)] = " " THEN trim(SubSeq(t, 1, Len(t) - 1))
    ELSE t

(* String(s || "").toLowerCase().normalize("NFD")...replace(/[^a-z0-9]+/g, " ").trim() *)
normalizeText(s) ==
    trim(squeeze([i \in 1..Len(s) |->
                    LET c == stripMarks(toLowerCase(s[i]))
                    IN  IF c \in Letters THEN c ELSE " "]))

(* s.replace(/<a>/g, b) for one character a and a text b. *)
RECURSIVE replaceAll(_, _, _)
replaceAll(s, a, b) ==
    IF s = <<>> THEN <<>>
    ELSE (IF s[1] = a THEN b ELSE <<s[1]>>) \o replaceAll(Tail(s), a, b)

(* s.split(" ").filter(Boolean) *)
RECURSIVE words(_, _)
words(s, word) ==
    IF s = <<>> THEN (IF word = <<>> THEN <<>> ELSE <<word>>)
    ELSE IF s[1] = " " THEN (IF word = <<>> THEN <<>> ELSE <<word>>) \o words(Tail(s), <<>>)
    ELSE words(Tail(s), Append(word, s[1]))

RECURSIVE join(_, _)
join(ws, sep) ==
    IF ws = <<>> THEN <<>>
    ELSE IF Len(ws) = 1 THEN ws[1]
    ELSE ws[1] \o sep \o join(Tail(ws), sep)

(* uniqueStrings from position i on: blank entries and repeats are left out. *)
RECURSIVE uniqueFrom(_, _, _)
uniqueFrom(arr, i, seen) ==
    IF i > Len(arr) THEN <<>>
    ELSE LET v == trim(arr[i])
         IN  IF v = <<>> \/ v \in seen THEN uniqueFrom(arr, i + 1, seen)
             ELSE <<v>> \o uniqueFrom(arr, i + 1, seen \cup {v})

uniqueStrings(arr) == uniqueFrom(arr, 1, {})

(* KIOSKO_MAP[publisherId] || [] *)
KIOSKO_MAP(publisherId) ==
    CASE publisherId = <<"m", "a", "r", "c", "a">> -> << <<"e", "s", "/", "m", "a", "r", "c", "a">> >>
      [] publisherId = <<"l", "e", "q", "u", "i", "p", "e">> ->
            << <<"f", "r", "/", "l", "_", "e", "q", "u", "i", "p">>,
               <<"f", "r", "/", "l", "_", "e", "q", "u", "i", "p", "e">>,
               <<"f", "r", "/", "l", "e", "q", "u", "i", "p", "e">>,
               <<"f", "r", "/", "l", "e", "_", "e", "q", "u", "i", "p", "e">> >>
      [] publisherId = <<"a", "b", "o", "l", "a">> ->
            << <<"p", "t", "/", "a", "b", "o", "l", "a">>,
               <<"p", "t", "/", "a", "_", "b", "o", "l", "a">>,
               <<"p", "t", "/", "a", "-", "b", "o", "l", "a">> >>
      [] OTHER -> <<>>

(* langByCountry[publisher?.country] || "es" *)
langByCountry(country) ==
    CASE country = "ES" -> <<"e", "s">>
      [] country = "FR" -> <<"f", "r">>
      [] country = "IT" -> <<"i", "t">>
      [] country = "PT" -> <<"p", "t">>
      [] country = "UK" -> <<"u", "k">>
      [] country = "DE" -> <<"d", "e">>
      [] OTHER -> <<"e", "s">>

(* The slugs buildKioskoPathKeys makes up from the id and the name. *)
generatedSlugs(publisherId, pub) ==
    LET pid == replaceAll(normalizeText(publisherId), " ", <<>>)
        fromId == IF pid = <<>> THEN <<>>
                  ELSE << pid, replaceAll(pid, "-", <<"_">>), replaceAll(pid, "_", <<>>) >>
        pname == normalizeText(pub.name)
        ws == words(pname, <<>>)
        fromName ==
            IF pname = <<>> \/ ws = <<>> THEN <<>>
            ELSE << join(ws, <<"_">>), join(ws, <<>>) >>
                 \o (IF Len(ws) >= 2 /\ Len(ws[1]) = 1
                       THEN << ws[1] \o <<"_">> \o ws[2] >>
                            \o (IF Len(ws[2]) >= 4
                                  THEN << ws[1] \o <<"_">> \o SubSeq(ws[2], 1, Len(ws[2]) - 1) >>
                                  ELSE <<>>)
                       ELSE <<>>)
    IN  uniqueStrings(fromId \o fromName)

generatedFirst(mapped, generated) == generated \o mapped

(* [...mapped, ...generated] *)
mappedFirst(mapped, generated) == mapped \o generated

buildKioskoPathKeys(publisherId, pub) ==
    LET lang == langByCountry(pub.country)
        slugs == generatedSlugs(publisherId, pub)
        generated == [i \in 1..Len(slugs) |-> lang \o <<"/">> \o slugs[i]]
    IN  uniqueStrings(mappedFirst(KIOSKO_MAP(publisherId), generated))

(* The text of a path key as one token of a URL. *)
pathKeyToken(key) ==
    CASE key = <<"e", "s", "/", "m", "a", "r", "c", "a">> -> "es/marca"
      [] key = <<"f", "r", "/", "l", "_", "e", "q", "u", "i", "p">> -> "fr/l_equip"
      [] key = <<"f", "r", "/", "l", "_", "e", "q", "u", "i", "p", "e">> -> "fr/l_equipe"
      [] key = <<"f", "r", "/", "l", "e", "q", "u", "i", "p", "e">> -> "fr/lequipe"
      [] key = <<"f", "r", "/", "l", "e", "_", "e", "q", "u", "i", "p", "e">> -> "fr/le_equipe"
      [] key = <<"p", "t", "/", "a", "b", "o", "l", "a">> -> "pt/abola"
      [] key = <<"p", "t", "/", "a", "_", "b", "o", "l", "a">> -> "pt/a_bola"
      [] key = <<"p", "t", "/", "a", "-", "b", "o", "l", "a">> -> "pt/a-bola"
      [] key = <<"p", "t", "/", "a", "_", "b", "o", "l">> -> "pt/a_bol"
      [] key = <<"e", "s", "/", "a", "b", "o", "l", "a">> -> "es/abola"
      [] key = <<"e", "s", "/", "a", "_", "b", "o", "l", "a">> -> "es/a_bola"
      [] key = <<"e", "s", "/", "a", "_", "b", "o", "l">> -> "es/a_bol"

(* const [year, month, day] = dateStr.split("-"), as ${year}/${month}/${day} *)
dateDir(dateStr) ==
    CASE dateStr = "2025-12-19" -> "2025/12/19"
      [] dateStr = "2025-12-20" -> "2025/12/20"

sizesAscending == <<"300", "500", "750", "1000", "1200", "1500", "2000">>

directSizes == <<"2000", "1500", "1200", "1000", "750", "500", "300">>

(* `https://img.kiosko.net/${year}/${month}/${day}/${pathKey}.${size}.jpg` *)
directUrl(dateStr, pathKey, size) ==
    <<"https:", "img.kiosko.net", dateDir(dateStr), pathKeyToken(pathKey), size, ".jpg">>

(* The publishers the direct harvester is called for: id, name, country. *)
KioskoPublisher(id, name, country) == [id |-> id, name |-> name, country |-> country]

DirectPublishers ==
    { KioskoPublisher(<<"m", "a", "r", "c", "a">>, <<"M", "a", "r", "c", "a">>, "ES"),
      KioskoPublisher(<<"l", "e", "q", "u", "i", "p", "e">>, <<"L", "'", "E-acute", "q", "u", "i", "p", "e">>, "FR"),
      KioskoPublisher(<<"a", "b", "o", "l", "a">>, <<"A", " ", "B", "o", "l", "a">>, "PT"),
      KioskoPublisher(<<"a", "-", "b", "o", "l", "a">>, <<"A", " ", "B", "o", "l", "a">>, NullStr) }

DirectProbe(key, size, url) == [key |-> key, size |-> size, url |-> url]

DirectIdle ==
    /\ dPub = Null /\ dKeys = <<>> /\ dK = 0 /\ dS = 0 /\ dProbed = <<>>
    /\ dFirstPass = 0 /\ dResult = Null /\ dPc = "idle"

(* A call: pathKeys is built before the loops start. *)
DirectInit ==
    /\ dPub \in DirectPublishers
    /\ dKeys = buildKioskoPathKeys(dPub.id, dPub)
    /\ dK = 1 /\ dS = 1 /\ dProbed = <<>> /\ dFirstPass = 0 /\ dResult = Null
    /\ dPc = IF dKeys = <<>> THEN "done" ELSE "loop"

(* One turn of the inner loop: the probe of the next URL, which throws     *)
(* (Null) or gives a result that is scored; then return, or the next size, *)
(* or the next path key, or the return null after the loops.               *)
DirectTurn ==
    /\ dPc = "loop"
    /\ LET pathKey == dKeys[dK]
           size == directSizes[dS]
           url == directUrl(DateStr, pathKey, size)
       IN  \E meta \in ProbeOutcomes :
             LET passes == meta # Null
                           /\ scoreCoverCandidate(url, meta, "kiosko.net(direct)") >= 70
             IN  /\ dProbed' = Append(dProbed, DirectProbe(pathKey, size, url))
                 /\ dFirstPass' = IF passes /\ dFirstPass = 0 THEN Len(dProbed) + 1
                                  ELSE dFirstPass
                 /\ IF passes
                      THEN /\ dResult' = Cand(url, NullStr, "kiosko.net(direct)")
                           /\ dPc' = "done"
                           /\ UNCHANGED <<dK, dS>>
                    ELSE IF dS < Len(directSizes)
                      THEN /\ dS' = dS + 1
                           /\ UNCHANGED <<dK, dResult, dPc>>
                    ELSE IF dK < Len(dKeys)
                      THEN /\ dK' = dK + 1 /\ dS' = 1
                           /\ UNCHANGED <<dResult, dPc>>
                    ELSE /\ dPc' = "done"
                         /\ UNCHANGED <<dK, dS, dResult>>
    /\ UNCHANGED <<dPub, dKeys>>

-----------------------------------------------------------------------------
(*            scoreMatch and fetchKioskoNetFromDailyHtmlAny                *)

MaxTiles == 2

(* if (matchScore < 6) continue *)
MinMatch == 6

(* hay.includes(p) *)
includesText(hay, p) ==
    \E i \in 0..(Len(hay) - Len(p)) : SubSeq(hay, i + 1, i + Len(p)) = p

RECURSIVE sumOver(_, _)
sumOver(ws, hay) ==
    IF ws = <<>> THEN 0
    ELSE Bias(Len(ws[1]) >= 4 /\ includesText(hay, ws[1]), 2) + sumOver(Tail(ws), hay)

(* String(href || "").toLowerCase().endsWith(".html") *)
endsWithHtml(href) ==
    /\ Len(href) >= 5
    /\ [i \in 1..5 |-> toLowerCase(href[Len(href) - 5 + i])] = <<".", "h", "t", "m", "l">>

scoreMatch(pub, href, alt) ==
    LET hay == normalizeText(href \o <<" ">> \o alt)
        pid == normalizeText(pub.id)
        pname == normalizeText(pub.name)
    IN    Bias(pid # <<>> /\ includesText(hay, pid), 10)
        + (IF pname # <<>> THEN sumOver(words(pname, <<>>), hay) ELSE 0)
        + Bias(endsWithHtml(href), 1)

passesBarOff(matchScore) == TRUE

(* if (matchScore < 6) continue *)
passesBar(matchScore) == ~(matchScore < 6)

(* An <a href$=".html"> of the day index: its href, the text found for    *)
(* its image, and the URL of the image (NullUrl: no <img>, or none with a  *)
(* usable srcset / src).                                                   *)
Anchor(href, alt, imgUrl) == [href |-> href, alt |-> alt, imgUrl |-> imgUrl]

KAs20 == <<"https:", "img.kiosko.net", "2025/12/20", "es", "as.750.jpg">>
KMd20 == <<"https:", "img.kiosko.net", "2025/12/20", "es", "mundodeportivo.750.jpg">>

DailyAnchors ==
    { Anchor(<<"/", "n", "p", "/", "m", "a", "r", "c", "a", ".", "h", "t", "m", "l">>, <<"M", "a", "r", "c", "a">>, K20),
      Anchor(<<"/", "n", "p", "/", "m", "a", "r", "c", "a", ".", "h", "t", "m", "l">>, <<"M", "a", "r", "c", "a">>, K19),
      Anchor(<<"/", "n", "p", "/", "a", "s", ".", "h", "t", "m", "l">>, <<"A", "S">>, KAs20),
      Anchor(<<"/", "n", "p", "/", "m", "u", "n", "d", "o", "d", "e", "p", "o", "r", "t", "i", "v", "o", ".", "h", "t", "m", "l">>, <<>>, KMd20),
      Anchor(<<"/", "n", "p", "/", "m", "u", "n", "d", "o", "d", "e", "p", "o", "r", "t", "i", "v", "o", ".", "h", "t", "m", "l">>, <<"M", "u", "n", "d", "o", " ", "D", "e", "p", "o", "r", "t", "i", "v", "o">>, KMd20),
      Anchor(<<"/", "n", "p", "/", "s", "p", "o", "r", "t", ".", "h", "t", "m", "l">>, <<"S", "p", "o", "r", "t">>, NullUrl) }

DailyPublishers ==
    { KioskoPublisher(<<"m", "a", "r", "c", "a">>, <<"M", "a", "r", "c", "a">>, "ES"),
      KioskoPublisher(<<"m", "u", "n", "d", "o", "-", "d", "e", "p", "o", "r", "t", "i", "v", "o">>, <<"M", "u", "n", "d", "o", " ", "D", "e", "p", "o", "r", "t", "i", "v", "o">>, "ES") }

(* What fetchHtml(dayUrl) comes to: it throws, or the anchors of the page. *)
DayPage(ok, anchors) == [ok |-> ok, anchors |-> anchors]

DayPages ==
    { DayPage(FALSE, <<>>) } \cup { DayPage(TRUE, as) : as \in SeqsUpTo(DailyAnchors, MaxTiles) }

(* The .each callback: an anchor without image URL gives no tile. *)
RECURSIVE collectTiles(_)
collectTiles(anchors) ==
    IF anchors = <<>> THEN <<>>
    ELSE (IF anchors[1].imgUrl = NullUrl THEN <<>> ELSE <<anchors[1]>>)
         \o collectTiles(Tail(anchors))

(* t goes behind every tile that does not sort after it. *)
RECURSIVE insertByMatch(_, _, _)
insertByMatch(pub, t, sorted) ==
    IF sorted = <<>> THEN <<t>>
    ELSE IF scoreMatch(pub, t.href, t.alt) - scoreMatch(pub, sorted[1].href, sorted[1].alt) > 0
       THEN <<t>> \o sorted
    ELSE <<sorted[1]>> \o insertByMatch(pub, t, Tail(sorted))

(* tiles.sort((t1, t2) => s2 - s1), a stable sort *)
RECURSIVE sortByMatch(_, _)
sortByMatch(pub, tiles) ==
    IF tiles = <<>> THEN <<>>
    ELSE insertByMatch(pub, tiles[Len(tiles)], sortByMatch(pub, SubSeq(tiles, 1, Len(tiles) - 1)))

(* tiles.slice(0, 10) *)
firstTen(tiles) == SubSeq(tiles, 1, IF Len(tiles) < 10 THEN Len(tiles) ELSE 10)

DayUrls == <<"https://es.kiosko.net/2025-12-20/", "https://www.kiosko.net/es/2025-12-20/">>

DailyIdle ==
    /\ yPub = Null /\ yPages = <<>> /\ yP = 0 /\ yTiles = <<>> /\ yT = 0
    /\ yProbed = <<>> /\ yPassed = <<>> /\ yResult = Null /\ yPc = "idle"

DailyInit ==
    /\ yPub \in DailyPublishers
    /\ yPages \in [1..2 -> DayPages]
    /\ yP = 1 /\ yTiles = <<>> /\ yT = 0 /\ yProbed = <<>> /\ yPassed = <<>>
    /\ yResult = Null /\ yPc = "page"

(* After the last tile of a page: the next day URL, or return null. *)
DailyNextPage ==
    IF yP < Len(DayUrls) THEN yP' = yP + 1 /\ yPc' = "page" /\ yResult' = yResult
    ELSE yP' = yP /\ yPc' = "done" /\ yResult' = Null

(* A turn of the outer loop up to its inner loop: fetchHtml, which may    *)
(* throw out of the function, the collection of the tiles and their sort.  *)
DailyPage ==
    /\ yPc = "page"
    /\ LET page == yPages[yP]
           tiles == firstTen(sortByMatch(yPub, collectTiles(page.anchors)))
       IN  IF ~page.ok
              THEN yPc' = "thrown" /\ UNCHANGED <<yP, yTiles, yT, yResult>>
           ELSE IF collectTiles(page.anchors) = <<>>
              THEN DailyNextPage /\ UNCHANGED <<yTiles, yT>>
           ELSE yTiles' = tiles /\ yT' = 1 /\ yPc' = "tile" /\ UNCHANGED <<yP, yResult>>
    /\ UNCHANGED <<yPub, yPages, yProbed, yPassed>>

(* After a tile: the next tile, or the end of the inner loop. *)
DailyNextTile ==
    IF yT < Len(yTiles) THEN yT' = yT + 1 /\ UNCHANGED <<yP, yPc, yResult>>
    ELSE DailyNextPage /\ yT' = yT

(* A turn of the inner loop: the tile is passed over for its match score   *)
(* or its date, or its image is probed, and returned when it scores 70.    *)
DailyTile ==
    /\ yPc = "tile"
    /\ LET t == yTiles[yT]
           matchScore == scoreMatch(yPub, t.href, t.alt)
       IN  IF ~passesBar(matchScore)
              THEN /\ yPassed' = Append(yPassed, t)
                   /\ DailyNextTile /\ UNCHANGED yProbed
           ELSE IF strictKioskoDate(t.imgUrl, DateStr)
              THEN DailyNextTile /\ UNCHANGED <<yProbed, yPassed>>
           ELSE \E meta \in ProbeOutcomes :
                  /\ yProbed' = Append(yProbed, t)
                  /\ yPassed' = yPassed
                  /\ IF meta # Null
                        /\ scoreCoverCandidate(t.imgUrl, meta, "kiosko.net(daily-html)") >= 70
                       THEN /\ yResult' = [url |-> t.imgUrl, referer |-> DayUrls[yP],
                                           source |-> "kiosko.net(daily-html)", tile |-> t]
                            /\ yPc' = "done"
                            /\ UNCHANGED <<yP, yT>>
                       ELSE DailyNextTile
    /\ UNCHANGED <<yPub, yPages, yTiles>>

-----------------------------------------------------------------------------
(*                 fetchFromPrimary and fetchFromFallbacks                 *)

MaxFallbacks == 2

(* publisher.primary: { method, url, selector }; Null when there is none,  *)
(* NullStr for a selector left out.                                        *)
Primary(method, url, selector) == [method |-> method, url |-> url, selector |-> selector]

(* An entry of publisher.fallbacks: { type, url }. *)
Fallback(type, url) == [type |-> type, url |-> url]

HomePage == "https://www.marca.com/"
CoverPage == "https://www.marca.com/portada"
KioskPage == "https://www.marca.com/kiosko"

Primaries ==
    { Null,
      Primary("og:image", HomePage, NullStr),
      Primary("og:image", HomePage, "img.cover"),
      Primary("dom:page_scan", HomePage, "img.cover"),
      Primary("social:x_latest_media", "https://x.com/marca", NullStr),
      Primary("og:image", NullStr, NullStr) }

FallbackEntries ==
    { Fallback("site", CoverPage), Fallback("site", KioskPage),
      Fallback("nitter_proxy", "https://nitter.net/marca") }

(* What a page holds when fetched: whether it loads, the image found at    *)
(* the configured selector, and the images its meta tags name, in the      *)
(* order of the default selectors; NullUrl and <<>> for none.              *)
Page(loads, atSelector, metaImages) ==
    [loads |-> loads, atSelector |-> atSelector, metaImages |-> metaImages]

HomePages ==
    { Page(FALSE, NullUrl, <<>>), Page(TRUE, NullUrl, <<>>), Page(TRUE, NullUrl, <<UrlB>>),
      Page(TRUE, UrlB, <<UrlNoExt>>), Page(TRUE, NullUrl, <<UrlC, UrlB>>) }

OtherPages == { Page(FALSE, NullUrl, <<>>), Page(TRUE, NullUrl, <<>>), Page(TRUE, NullUrl, <<UrlB>>) }

(* A call of a function that no declaration, import or global of the       *)
(* module binds: fetchMetaImage and fetchDomScan are called at 1032-1044   *)
(* and declared nowhere in the file.  Evaluating the call throws a         *)
(* ReferenceError.                                                         *)
callUndeclared(name) == Rejected

(* async function fetchFromPrimary(publisher): the promise it returns. *)
fetchFromPrimary(pub) ==
    IF pub.primary = Null \/ pub.primary.url = NullStr \/ pub.primary.method = NullStr
       THEN Fulfilled(Null)
    ELSE IF pub.primary.method = "og:image" THEN callUndeclared("fetchMetaImage")
    ELSE IF pub.primary.method = "dom:page_scan"
       \* safe(fetchDomScan(...)): the argument is evaluated before safe is entered
       THEN callUndeclared("fetchDomScan")
    ELSE Fulfilled(Null)

DeclaredIdle ==
    /\ mPub = Null /\ mPages = <<>> /\ mProbe = <<>> /\ mPrimary = Null
    /\ mFb = 0 /\ mFallback = Null /\ mPc = "idle"

(* A publisher with its configuration, the pages behind its URLs and what  *)
(* a probe of each image would give.                                       *)
DeclaredInit ==
    /\ \E prim \in Primaries, fbs \in SeqsUpTo(FallbackEntries, MaxFallbacks) :
          /\ mPub = [id |-> PublisherId, primary |-> prim, fallbacks |-> fbs]
          /\ \A i, j \in 1..Len(fbs) : i # j => fbs[i] # fbs[j]
    /\ \E home \in HomePages, cover, kiosk \in OtherPages :
          mPages = (HomePage :> home) @@ (CoverPage :> cover) @@ (KioskPage :> kiosk)
    /\ mProbe \in [{UrlB, UrlC, UrlNoExt} -> {Null, BigJpeg}]
    /\ mPrimary = Null /\ mFb = 0 /\ mFallback = Null
    /\ mPc = "primary"

(* await safe(fetchFromPrimary(publisher)) in fetchCover. *)
PrimaryCall ==
    /\ mPc = "primary"
    /\ mPrimary' = safe(fetchFromPrimary(mPub))
    /\ mFb' = 1
    /\ mPc' = IF mPub.fallbacks = <<>> THEN "done" ELSE "fallbacks"
    /\ mFallback' = IF mPub.fallbacks = <<>> THEN Fulfilled(Null) ELSE mFallback
    /\ UNCHANGED <<mPub, mPages, mProbe>>

(* One turn of the loop of fetchFromFallbacks: an entry of another type is *)
(* passed over; for a site, the call of fetchMetaImage throws out of the   *)
(* function, and safe in fetchCover makes null of it.                      *)
FallbackTurn ==
    /\ mPc = "fallbacks"
    /\ LET fb == mPub.fallbacks[mFb]
           r == IF fb.type = "site" THEN callUndeclared("fetchMetaImage") ELSE Fulfilled(Null)
       IN  IF r.threw
              THEN mFallback' = safe(r) /\ mPc' = "done" /\ mFb' = mFb
           ELSE IF mFb < Len(mPub.fallbacks)
              THEN mFb' = mFb + 1 /\ UNCHANGED <<mFallback, mPc>>
           ELSE mFallback' = Fulfilled(Null) /\ mPc' = "done" /\ mFb' = mFb
    /\ UNCHANGED <<mPub, mPages, mProbe, mPrimary>>

-----------------------------------------------------------------------------
(*        upsertTodayJsonEntry against what parseTodayJson accepts         *)

(* today.json as text: missing, not parsable, or JSON of one of the forms  *)
(* parseTodayJson tells apart: an array, an object whose items is an       *)
(* array, any other object (a map from some key to the record), or a       *)
(* scalar.  items are the records in the order of the text; a record may   *)
(* be null.                                                                *)
Content(form, items) == [form |-> form, items |-> items]

ContentForms == {"array", "items", "map"}

UpsertDates == {"2025-12-19", DateStr}

UpsertRecords ==
    { StoreEntry(p, d, UrlA) : p \in {As, Marca, Sport}, d \in UpsertDates } \cup {Null}

Contents ==
    { Content("missing", <<>>), Content("corrupt", <<>>), Content("scalar", <<>>) }
    \cup { Content(f, items) : f \in ContentForms, items \in SeqsUpTo(UpsertRecords, MaxItems) }

(* JSON.parse throws on text that is no JSON. *)
parses(content) == content.form \notin {"missing", "corrupt"}

(* parseTodayJson: the array, data.items, Object.values(data), or []. *)
parseTodayJson(content) ==
    CASE content.form = "array" -> content.items
      [] content.form = "items" -> content.items
      [] content.form = "map"   -> content.items
      [] OTHER                  -> <<>>

(* Array.isArray(parsed) ? parsed : Array.isArray(parsed?.items) ?         *)
(* parsed.items : [], and [] when the file is missing or JSON.parse throws *)
upsertRead(content) ==
    CASE content.form = "array" -> content.items
      [] content.form = "items" -> content.items
      [] OTHER                  -> <<>>

(* The comparator of arr.sort reads a.publisherId of both elements it is   *)
(* given: a TypeError when one of them is null.  After the push the array  *)
(* has two elements or more whenever it holds a null.                      *)
comparatorThrows(arr) == \E k \in 1..Len(arr) : arr[k] = Null

UpsertIdle == jBefore = Null /\ jCall = Null /\ jAfter = Null /\ jPc = "idle"

UpsertInit ==
    /\ jBefore \in Contents
    /\ jCall \in { StoreEntry(p, DateStr, UrlB) : p \in {As, Marca} }
    /\ jAfter = jBefore
    /\ jPc = "call"

(* upsertTodayJsonEntry: read, filter, push, sort, write. *)
UpsertCall ==
    /\ jPc = "call"
    /\ LET arr == upsertRead(jBefore)
       IN  IF comparatorThrows(arr)
             THEN jPc' = "thrown" /\ jAfter' = jAfter
             ELSE /\ jPc' = "done"
                  /\ jAfter' = Content("array", upsertTodayJsonEntry(arr, jCall))
    /\ UNCHANGED <<jBefore, jCall>>

-----------------------------------------------------------------------------
(*                     trySourcesAndDownload (legacy)                      *)

MaxSources == 3

(* What the four selectors of findBestCoverImage read from a page:         *)
(* #portada src, og:image, twitter:image, #giornale-img src; "" when the   *)
(* element or the attribute is missing.                                    *)
SourcePage(portada, og, twitter, giornale) ==
    [portada |-> portada, og |-> og, twitter |-> twitter, giornale |-> giornale]

ImgKiosko == "//img.kiosko.net/2025/12/20/es/marca.750.jpg"
ImgLogo == "https://www.marca.com/img/logo.png"
ImgFavicon == "https://www.marca.com/favicon-192.png"
ImgWebpJpg == " https://cdn.frontpages.com/marca.webp.jpg "
ImgOg == "https://www.marca.com/portada.jpg"

(* img.includes('logo') || img.includes('icon') || img.includes('avatar') *)
logoLike(img) == img \in {ImgLogo, ImgFavicon}

SourcePages ==
    { SourcePage("", "", "", ""),
      SourcePage("", ImgLogo, ImgFavicon, ""),
      SourcePage(ImgLogo, ImgOg, "", ""),
      SourcePage(ImgKiosko, ImgLogo, "", ""),
      SourcePage("", "", ImgFavicon, ImgWebpJpg) }

(* The first candidate, in the order of the selectors, that is not         *)
(* logo-like; "" stands for null.                                          *)
findBestCoverImage(page) ==
    LET all == <<page.portada, page.og, page.twitter, page.giornale>>
        kept == { k \in 1..4 : all[k] # "" /\ ~logoLike(all[k]) }
    IN  IF kept = {} THEN ""
        ELSE all[CHOOSE k \in kept : \A j \in kept : k <= j]

(* image.trim(), then a trailing .jpg cut off an image ending in .webp.jpg *)
cleanImage(image) ==
    IF image = ImgWebpJpg THEN "https://cdn.frontpages.com/marca.webp" ELSE image

continuesOnlyWithoutImage(outcome) == outcome \in {"page failed", "no image"}

(* Whether the loop goes on to the next source after a turn of this       *)
(* outcome: only the return after a completed download leaves it.         *)
continues(outcome) == outcome # "downloaded"

Turn(source, outcome, url) == [source |-> source, outcome |-> outcome, url |-> url]

LegacyIdle ==
    /\ lSources = <<>> /\ lI = 0 /\ lLog = <<>> /\ lResult = Null /\ lPc = "idle"

LegacyInit ==
    /\ lSources \in SeqsUpTo(SourcePages, MaxSources)
    /\ lI = 1 /\ lLog = <<>> /\ lResult = Null /\ lPc = "loop"

(* One turn of the loop: fetchWithFallback([sourceUrl]) gives the page or  *)
(* success: false; findBestCoverImage; downloadImage, which returns or     *)
(* throws into the catch of the turn.                                      *)
LegacyTurn ==
    /\ lPc = "loop"
    /\ lI <= Len(lSources)
    /\ \E loads \in BOOLEAN, completes \in BOOLEAN :
         LET image == findBestCoverImage(lSources[lI])
             outcome == IF ~loads THEN "page failed"
                        ELSE IF image = "" THEN "no image"
                        ELSE IF ~completes THEN "download failed"
                        ELSE "downloaded"
             url == IF loads /\ image # "" THEN cleanImage(image) ELSE ""
         IN  /\ lLog' = Append(lLog, Turn(lI, outcome, url))
             /\ IF continues(outcome)
                  THEN lI' = lI + 1 /\ UNCHANGED <<lResult, lPc>>
                  ELSE /\ lResult' = [localFile |-> "medium.jpg", url |-> url]
                       /\ lPc' = "done" /\ lI' = lI
    /\ UNCHANGED lSources

(* The loop is over: return null. *)
LegacyExhausted ==
    /\ lPc = "loop"
    /\ lI > Len(lSources)
    /\ lPc' = "done"
    /\ UNCHANGED <<lSources, lI, lLog, lResult>>

-----------------------------------------------------------------------------
(*                             Specifications                              *)

InitRetry ==
    RetryInit /\
    UniqueIdle /\
    CuratedIdle /\
    FetchIdle /\
    ScoreIdle /\
    SniffIdle /\
    ProbeIdle /\
    RaceIdle /\
    BatchIdle /\
    DirectIdle /\
    DailyIdle /\
    DeclaredIdle /\
    UpsertIdle /\
    LegacyIdle

NextRetry ==
    \/ withRetryOk /\ UNCHANGED <<uniqueVars, curatedVars, fetchVars, scoreVars, sniffVars, probeVars, raceVars, batchVars, directVars, dailyVars, declaredVars, upsertVars, legacyVars>>
    \/ withRetryFail /\ UNCHANGED <<uniqueVars, curatedVars, fetchVars, scoreVars, sniffVars, probeVars, raceVars, batchVars, directVars, dailyVars, declaredVars, upsertVars, legacyVars>>
    \/ withRetryWake /\ UNCHANGED <<uniqueVars, curatedVars, fetchVars, scoreVars, sniffVars, probeVars, raceVars, batchVars, directVars, dailyVars, declaredVars, upsertVars, legacyVars>>
    \/ withRetryExhausted /\ UNCHANGED <<uniqueVars, curatedVars, fetchVars, scoreVars, sniffVars, probeVars, raceVars, batchVars, directVars, dailyVars, declaredVars, upsertVars, legacyVars>>

SpecRetry == InitRetry /\ [][NextRetry]_vars

InitUnique ==
    UniqueInit /\
    RetryIdle /\
    CuratedIdle /\
    FetchIdle /\
    ScoreIdle /\
    SniffIdle /\
    ProbeIdle /\
    RaceIdle /\
    BatchIdle /\
    DirectIdle /\
    DailyIdle /\
    DeclaredIdle /\
    UpsertIdle /\
    LegacyIdle

NextUnique ==
    \/ UniqueCall /\ UNCHANGED <<retryVars, curatedVars, fetchVars, scoreVars, sniffVars, probeVars, raceVars, batchVars, directVars, dailyVars, declaredVars, upsertVars, legacyVars>>

SpecUnique == InitUnique /\ [][NextUnique]_vars

InitCurated ==
    CuratedInit /\
    RetryIdle /\
    UniqueIdle /\
    FetchIdle /\
    ScoreIdle /\
    SniffIdle /\
    ProbeIdle /\
    RaceIdle /\
    BatchIdle /\
    DirectIdle /\
    DailyIdle /\
    DeclaredIdle /\
    UpsertIdle /\
    LegacyIdle

NextCurated ==
    \/ CuratedCall /\ UNCHANGED <<retryVars, uniqueVars, fetchVars, scoreVars, sniffVars, probeVars, raceVars, batchVars, directVars, dailyVars, declaredVars, upsertVars, legacyVars>>

SpecCurated == InitCurated /\ [][NextCurated]_vars

InitScore ==
    ScoreInit /\
    RetryIdle /\
    UniqueIdle /\
    CuratedIdle /\
    FetchIdle /\
    SniffIdle /\
    ProbeIdle /\
    RaceIdle /\
    BatchIdle /\
    DirectIdle /\
    DailyIdle /\
    DeclaredIdle /\
    UpsertIdle /\
    LegacyIdle

NextScore ==
    \/ ScoreCall /\ UNCHANGED <<retryVars, uniqueVars, curatedVars, fetchVars, sniffVars, probeVars, raceVars, batchVars, directVars, dailyVars, declaredVars, upsertVars, legacyVars>>

SpecScore == InitScore /\ [][NextScore]_vars

InitSniff ==
    SniffInit /\
    RetryIdle /\
    UniqueIdle /\
    CuratedIdle /\
    FetchIdle /\
    ScoreIdle /\
    ProbeIdle /\
    RaceIdle /\
    BatchIdle /\
    DirectIdle /\
    DailyIdle /\
    DeclaredIdle /\
    UpsertIdle /\
    LegacyIdle

NextSniff ==
    \/ SniffCall /\ UNCHANGED <<retryVars, uniqueVars, curatedVars, fetchVars, scoreVars, probeVars, raceVars, batchVars, directVars, dailyVars, declaredVars, upsertVars, legacyVars>>

SpecSniff == InitSniff /\ [][NextSniff]_vars

InitProbe ==
    ProbeInit /\
    RetryIdle /\
    UniqueIdle /\
    CuratedIdle /\
    FetchIdle /\
    ScoreIdle /\
    SniffIdle /\
    RaceIdle /\
    BatchIdle /\
    DirectIdle /\
    DailyIdle /\
    DeclaredIdle /\
    UpsertIdle /\
    LegacyIdle

NextProbe ==
    \/ ProbeCall /\ UNCHANGED <<retryVars, uniqueVars, curatedVars, fetchVars, scoreVars, sniffVars, raceVars, batchVars, directVars, dailyVars, declaredVars, upsertVars, legacyVars>>

SpecProbe == InitProbe /\ [][NextProbe]_vars

InitRace ==
    RaceInit /\
    RetryIdle /\
    UniqueIdle /\
    CuratedIdle /\
    FetchIdle /\
    ScoreIdle /\
    SniffIdle /\
    ProbeIdle /\
    BatchIdle /\
    DirectIdle /\
    DailyIdle /\
    DeclaredIdle /\
    UpsertIdle /\
    LegacyIdle

NextRace ==
    \/ \E c \in RaceCalls : RaceOpen(c) /\ UNCHANGED <<retryVars, uniqueVars, curatedVars, fetchVars, scoreVars, sniffVars, probeVars, batchVars, directVars, dailyVars, declaredVars, upsertVars, legacyVars>>
    \/ \E c \in RaceCalls : RaceReject(c) /\ UNCHANGED <<retryVars, uniqueVars, curatedVars, fetchVars, scoreVars, sniffVars, probeVars, batchVars, directVars, dailyVars, declaredVars, upsertVars, legacyVars>>
    \/ \E c \in RaceCalls : RacePipe(c) /\ UNCHANGED <<retryVars, uniqueVars, curatedVars, fetchVars, scoreVars, sniffVars, probeVars, batchVars, directVars, dailyVars, declaredVars, upsertVars, legacyVars>>
    \/ \E c \in RaceCalls : RaceValidate(c) /\ UNCHANGED <<retryVars, uniqueVars, curatedVars, fetchVars, scoreVars, sniffVars, probeVars, batchVars, directVars, dailyVars, declaredVars, upsertVars, legacyVars>>
    \/ \E c \in RaceCalls : RaceCommit(c) /\ UNCHANGED <<retryVars, uniqueVars, curatedVars, fetchVars, scoreVars, sniffVars, probeVars, batchVars, directVars, dailyVars, declaredVars, upsertVars, legacyVars>>

SpecRace == InitRace /\ [][NextRace]_vars

InitBatch ==
    BatchInit /\
    RetryIdle /\
    UniqueIdle /\
    CuratedIdle /\
    FetchIdle /\
    ScoreIdle /\
    SniffIdle /\
    ProbeIdle /\
    RaceIdle /\
    DirectIdle /\
    DailyIdle /\
    DeclaredIdle /\
    UpsertIdle /\
    LegacyIdle

NextBatch ==
    \/ BuildTurn /\ UNCHANGED <<retryVars, uniqueVars, curatedVars, fetchVars, scoreVars, sniffVars, probeVars, raceVars, directVars, dailyVars, declaredVars, upsertVars, legacyVars>>
    \/ BuildFinish /\ UNCHANGED <<retryVars, uniqueVars, curatedVars, fetchVars, scoreVars, sniffVars, probeVars, raceVars, directVars, dailyVars, declaredVars, upsertVars, legacyVars>>
    \/ TestTurn /\ UNCHANGED <<retryVars, uniqueVars, curatedVars, fetchVars, scoreVars, sniffVars, probeVars, raceVars, directVars, dailyVars, declaredVars, upsertVars, legacyVars>>
    \/ TestFinish /\ UNCHANGED <<retryVars, uniqueVars, curatedVars, fetchVars, scoreVars, sniffVars, probeVars, raceVars, directVars, dailyVars, declaredVars, upsertVars, legacyVars>>

SpecBatch == InitBatch /\ [][NextBatch]_vars

InitDirect ==
    DirectInit /\
    RetryIdle /\
    UniqueIdle /\
    CuratedIdle /\
    FetchIdle /\
    ScoreIdle /\
    SniffIdle /\
    ProbeIdle /\
    RaceIdle /\
    BatchIdle /\
    DailyIdle /\
    DeclaredIdle /\
    UpsertIdle /\
    LegacyIdle

NextDirect ==
    \/ DirectTurn /\ UNCHANGED <<retryVars, uniqueVars, curatedVars, fetchVars, scoreVars, sniffVars, probeVars, raceVars, batchVars, dailyVars, declaredVars, upsertVars, legacyVars>>

SpecDirect == InitDirect /\ [][NextDirect]_vars

InitDaily ==
    DailyInit /\
    RetryIdle /\
    UniqueIdle /\
    CuratedIdle /\
    FetchIdle /\
    ScoreIdle /\
    SniffIdle /\
    ProbeIdle /\
    RaceIdle /\
    BatchIdle /\
    DirectIdle /\
    DeclaredIdle /\
    UpsertIdle /\
    LegacyIdle

NextDaily ==
    \/ DailyPage /\ UNCHANGED <<retryVars, uniqueVars, curatedVars, fetchVars, scoreVars, sniffVars, probeVars, raceVars, batchVars, directVars, declaredVars, upsertVars, legacyVars>>
    \/ DailyTile /\ UNCHANGED <<retryVars, uniqueVars, curatedVars, fetchVars, scoreVars, sniffVars, probeVars, raceVars, batchVars, directVars, declaredVars, upsertVars, legacyVars>>

SpecDaily == InitDaily /\ [][NextDaily]_vars

InitDeclared ==
    DeclaredInit /\
    RetryIdle /\
    UniqueIdle /\
    CuratedIdle /\
    FetchIdle /\
    ScoreIdle /\
    SniffIdle /\
    ProbeIdle /\
    RaceIdle /\
    BatchIdle /\
    DirectIdle /\
    DailyIdle /\
    UpsertIdle /\
    LegacyIdle

NextDeclared ==
    \/ PrimaryCall /\ UNCHANGED <<retryVars, uniqueVars, curatedVars, fetchVars, scoreVars, sniffVars, probeVars, raceVars, batchVars, directVars, dailyVars, upsertVars, legacyVars>>
    \/ FallbackTurn /\ UNCHANGED <<retryVars, uniqueVars, curatedVars, fetchVars, scoreVars, sniffVars, probeVars, raceVars, batchVars, directVars, dailyVars, upsertVars, legacyVars>>

SpecDeclared == InitDeclared /\ [][NextDeclared]_vars

InitUpsert ==
    UpsertInit /\
    RetryIdle /\
    UniqueIdle /\
    CuratedIdle /\
    FetchIdle /\
    ScoreIdle /\
    SniffIdle /\
    ProbeIdle /\
    RaceIdle /\
    BatchIdle /\
    DirectIdle /\
    DailyIdle /\
    DeclaredIdle /\
    LegacyIdle

NextUpsert ==
    \/ UpsertCall /\ UNCHANGED <<retryVars, uniqueVars, curatedVars, fetchVars, scoreVars, sniffVars, probeVars, raceVars, batchVars, directVars, dailyVars, declaredVars, legacyVars>>

SpecUpsert == InitUpsert /\ [][NextUpsert]_vars

InitLegacy ==
    LegacyInit /\
    RetryIdle /\
    UniqueIdle /\
    CuratedIdle /\
    FetchIdle /\
    ScoreIdle /\
    SniffIdle /\
    ProbeIdle /\
    RaceIdle /\
    BatchIdle /\
    DirectIdle /\
    DailyIdle /\
    DeclaredIdle /\
    UpsertIdle

NextLegacy ==
    \/ LegacyTurn /\ UNCHANGED <<retryVars, uniqueVars, curatedVars, fetchVars, scoreVars, sniffVars, probeVars, raceVars, batchVars, directVars, dailyVars, declaredVars, upsertVars>>
    \/ LegacyExhausted /\ UNCHANGED <<retryVars, uniqueVars, curatedVars, fetchVars, scoreVars, sniffVars, probeVars, raceVars, batchVars, directVars, dailyVars, declaredVars, upsertVars>>

SpecLegacy == InitLegacy /\ [][NextLegacy]_vars

Init ==
    FetchInit /\
    RetryIdle /\
    UniqueIdle /\
    CuratedIdle /\
    ScoreIdle /\
    SniffIdle /\
    ProbeIdle /\
    RaceIdle /\
    BatchIdle /\
    DirectIdle /\
    DailyIdle /\
    DeclaredIdle /\
    UpsertIdle /\
    LegacyIdle

Next ==
    \/ RejectArguments /\ UNCHANGED <<retryVars, uniqueVars, curatedVars, scoreVars, sniffVars, probeVars, raceVars, batchVars, directVars, dailyVars, declaredVars, upsertVars, legacyVars>>
    \/ Harvest /\ UNCHANGED <<retryVars, uniqueVars, curatedVars, scoreVars, sniffVars, probeVars, raceVars, batchVars, directVars, dailyVars, declaredVars, upsertVars, legacyVars>>
    \/ RankProbe /\ UNCHANGED <<retryVars, uniqueVars, curatedVars, scoreVars, sniffVars, probeVars, raceVars, batchVars, directVars, dailyVars, declaredVars, upsertVars, legacyVars>>
    \/ DownloadSkip /\ UNCHANGED <<retryVars, uniqueVars, curatedVars, scoreVars, sniffVars, probeVars, raceVars, batchVars, directVars, dailyVars, declaredVars, upsertVars, legacyVars>>
    \/ DownloadFail /\ UNCHANGED <<retryVars, uniqueVars, curatedVars, scoreVars, sniffVars, probeVars, raceVars, batchVars, directVars, dailyVars, declaredVars, upsertVars, legacyVars>>
    \/ DownloadOk /\ UNCHANGED <<retryVars, uniqueVars, curatedVars, scoreVars, sniffVars, probeVars, raceVars, batchVars, directVars, dailyVars, declaredVars, upsertVars, legacyVars>>

Spec == Init /\ [][Next]_vars

(* One call of fetchCover, of withRetry, or of the first loop of          *)
(* fetchKioskoNet, run to its end.  A pending async function is resumed   *)
(* whenever the promise it awaits settles, and every request and every    *)
(* sleep settles: a step that can be taken is taken.                      *)
InitFair == Init \/ InitRetry \/ InitDirect

NextFair == Next \/ NextRetry \/ NextDirect

SpecFair == InitFair /\ [][NextFair]_vars /\ WF_vars(NextFair)

-----------------------------------------------------------------------------
(*                                 Claims                                  *)

IsRetryableStatus(s) == s = 0 \/ s = 429 \/ s \in 500..599

(* C7: withRetry invokes the request at most `tries` times; a failure is   *)
(* followed by another invocation only if it is connection-level, 429 or   *)
(* 5xx; a failure with any other status is the last invocation of the      *)
(* call; and once an invocation has succeeded no further one is made.      *)
C7_RetryPolicy ==
    /\ rCalls <= rTries
    /\ \A k \in 1..Len(rFails) :
          /\ (k < rCalls \/ rPc = "sleep") => IsRetryableStatus(rFails[k])
          /\ ~IsRetryableStatus(rFails[k]) => (rCalls = k /\ rPc = "thrown")
    /\ rOkAt # 0 => (rCalls = rOkAt /\ rPc = "returned" /\ Len(rFails) = rOkAt - 1)

(* A 404 ended the call after one invocation, with three allowed. *)
C7_Witness ==
    /\ rTries = 3 /\ rPc = "thrown" /\ rFails = <<404>> /\ rCalls = 1

(* C8: the k-th sleep (after failed attempt k-1, counted from 0) lasts     *)
(* baseDelayMs * 2^(k-1): the first is baseDelayMs and each next one is    *)
(* twice the one before; there is one sleep per failure that is followed   *)
(* by another attempt, none after the final allowed attempt or after a     *)
(* non-retryable failure.                                                  *)
C8_BackoffDelays ==
    /\ \A k \in 1..Len(rSleeps) :
          rSleeps[k] = IF k = 1 THEN rBase ELSE 2 * rSleeps[k - 1]
    /\ rPc = "thrown" /\ rCalls > 0 => Len(rSleeps) = Len(rFails) - 1
    /\ rPc = "sleep" => Len(rSleeps) = Len(rFails)
    /\ rPc \in {"attempt", "returned"} => Len(rSleeps) = Len(rFails)
    /\ Len(rSleeps) <= IF rTries = 0 THEN 0 ELSE rTries - 1

(* Three failed attempts of three: two sleeps, 650 then 1300, none after   *)
(* the last.                                                               *)
C8_Witness ==
    /\ rTries = 3 /\ rBase = 650 /\ rPc = "thrown"
    /\ rFails = <<503, 0, 429>> /\ rSleeps = <<650, 1300>>

Urls(list) == { list[k].url : k \in { j \in 1..Len(list) : ~hasNoUrl(list[j]) } }

FirstIndexOf(list, url) ==
    CHOOSE k \in 1..Len(list) :
        /\ ~hasNoUrl(list[k]) /\ list[k].url = url
        /\ \A j \in 1..(k - 1) : hasNoUrl(list[j]) \/ list[j].url # url

(* C9: the result of uniqueByUrl has no two entries with the same URL, has *)
(* exactly the URLs of its input, holds for each URL the first entry of    *)
(* the input that carries it, in input order, and has no null entry; the   *)
(* list [A, A, B] gives 2 entries.                                         *)
C9_UniqueByUrl ==
    uPc = "done" =>
        /\ \A j, k \in 1..Len(uOut) : j # k => uOut[j].url # uOut[k].url
        /\ \A k \in 1..Len(uOut) : uOut[k] # Null
        /\ Urls(uOut) = Urls(uIn)
        /\ \A k \in 1..Len(uOut) : uOut[k] = uIn[FirstIndexOf(uIn, uOut[k].url)]
        /\ \A j, k \in 1..Len(uOut) :
              j < k => FirstIndexOf(uIn, uOut[j].url) < FirstIndexOf(uIn, uOut[k].url)
        /\ (Len(uIn) = 3 /\ uIn[1] # Null /\ uIn[2] # Null /\ uIn[3] # Null
              /\ uIn[1].url = UrlA /\ uIn[2].url = UrlA /\ uIn[3].url = UrlB)
           => Len(uOut) = 2

(* [A (curated), A (direct), B] was reduced to [A (curated), B]. *)
C9_Witness ==
    /\ uPc = "done"
    /\ uIn = << Cand(UrlA, NullStr, "today.json:docs/data/today.json"),
                Cand(UrlA, NullStr, "kiosko.net(direct)"),
                Cand(UrlB, "https://www.frontpages.com/marca/", "frontpages.com") >>
    /\ uOut = << Cand(UrlA, NullStr, "today.json:docs/data/today.json"),
                 Cand(UrlB, "https://www.frontpages.com/marca/", "frontpages.com") >>

(* The curated record the harvester finds for the request, if any. *)
CuratedHitUrl ==
    IF cStore.state = "ok" /\ findHit(cStore.items, PublisherId, DateStr) # Null
       /\ findHit(cStore.items, PublisherId, DateStr).sourceUrl.kind # "blank"
    THEN normalizeUrl(findHit(cStore.items, PublisherId, DateStr).sourceUrl, KioskoBase)
    ELSE NullUrl

AnyDateTokenDiffers(url, dateStr) ==
    \E i \in 1..Len(url) : url[i] \in DateTokens /\ dateOfToken(url[i]) # dateStr

IsKioskoDateDir(url, i) ==
    i + 2 <= Len(url) /\ url[i] = "img.kiosko.net" /\ url[i + 1] \in DateTokens

FirstKioskoDateDiffers(url, dateStr) ==
    \E i \in 1..Len(url) :
        /\ IsKioskoDateDir(url, i)
        /\ \A j \in 1..(i - 1) : ~IsKioskoDateDir(url, j)
        /\ dateOfToken(url[i + 1]) # dateStr

(* C10, as stated: a curated record whose source URL embeds any date token *)
(* other than the requested date is turned down, and is not probed.        *)
C10_AnyDateTokenRejected ==
    (cPc = "done" /\ AnyDateTokenDiffers(CuratedHitUrl, DateStr))
        => (cResult = Null /\ cProbes = <<>>)

(* C10, amended: a curated record whose source URL holds an                *)
(* img.kiosko.net/YYYY/MM/DD/ directory, the first of which is not the     *)
(* requested date, is turned down before any probe, whatever its score     *)
(* would be, and no second attempt is made on it.                          *)
C10_KioskoDateRejected ==
    (cPc = "done" /\ FirstKioskoDateDiffers(CuratedHitUrl, DateStr))
        => (cResult = Null /\ cProbes = <<>>)

(* The record for 2025-12-20 points to img.kiosko.net/2025/12/19/...: no   *)
(* probe, no candidate.                                                    *)
C10_Witness ==
    /\ cPc = "done"
    /\ cStore = Store("ok", <<Item(PublisherId, DateStr, RawUrl("abs", K19))>>)
    /\ cResult = Null /\ cProbes = <<>>

Present == { e \in FileExts : files[e] # "absent" }

(* C1: at no moment of a fetchCover call does a final path                 *)
(* <date>-medium<ext> hold a file that has not passed the validation after *)
(* the download (image content type, 8000 bytes or more, stream complete). *)
C1_FinalPathOnlyValidated ==
    \A e \in FileExts \ {".img"} : files[e] \in {"absent", "valid"}

(* C2: a call started on an empty directory leaves exactly the returned    *)
(* localFile there when it succeeds, and nothing when it fails.            *)
C2_ExactlyOneFile ==
    pc = "done" => Present = (IF result # Null THEN {result.localFile} ELSE {})

(* C3: download requests go down the ranking (scores never rise, no        *)
(* candidate is requested twice), and the first candidate whose download   *)
(* and validation succeed is the last one requested: no request is issued  *)
(* for a candidate ranked below it.                                        *)
C3_RankedOrderStopAtFirst ==
    /\ \A j, k \in 1..Len(attempts) :
          j < k => /\ attempts[j].rank < attempts[k].rank
                   /\ attempts[j].score >= attempts[k].score
    /\ \A k \in 1..Len(attempts) : attempts[k].downloaded => k = Len(attempts)

(* C4: fetchCover ends with "Cover not found" exactly when all six         *)
(* harvesters handed over no candidate, and with another error text when   *)
(* candidates existed and every probe or download of them failed.          *)
C4_NoCandidatesOutcome ==
    pc = "done" =>
        /\ (error.text = "Cover not found for")
              <=> (Len(harvested) = 6 /\ \A h \in 1..6 : harvested[h] = Null)
        /\ ((\E h \in 1..Len(harvested) : harvested[h] # Null) /\ result = Null)
              => error.text \in {"All candidates invalid for",
                                 "All candidate downloads failed for"}

(* Every harvester ran and came back empty, one of them by throwing. *)
C4_Witness ==
    /\ pc = "done" /\ error.text = "Cover not found for"
    /\ Len(harvested) = 6 /\ threw = {4}

(* C5, as stated: the error raised when candidates existed and none was    *)
(* downloaded names the number of download attempts and the cause of the   *)
(* last failed one.                                                        *)
C5_NamesCountAndCause ==
    (pc = "done" /\ error.text = "All candidate downloads failed for" /\ Len(attempts) > 0)
        => /\ "attempts" \in DOMAIN error
           /\ error.attempts = Len(attempts)
           /\ error.cause = attempts[Len(attempts)].cause

(* C5, amended: when at least one download was attempted and none went     *)
(* through, the error names the cause of the last failed attempt (and the  *)
(* publisher and date), and no attempt count; with no attempt made, every  *)
(* ranked candidate having been skipped by the date check, the cause reads *)
(* "null".                                                                 *)
C5_NamesLastCause ==
    (pc = "done" /\ error.text = "All candidate downloads failed for")
        => /\ DOMAIN error = {"text", "id", "date", "cause"}
           /\ error.cause = IF Len(attempts) > 0 THEN attempts[Len(attempts)].cause
                            ELSE NullStr

(* Two attempts failed for different reasons; the error names the second. *)
C5_Witness ==
    /\ pc = "done" /\ error.text = "All candidate downloads failed for"
    /\ Len(attempts) = 2
    /\ attempts[1].cause = "Downloaded too small"
    /\ attempts[2].cause = "Request failed with status code 404"
    /\ error.cause = "Request failed with status code 404"

(* C6: a harvester that throws counts as one that found nothing: the call  *)
(* never ends with the harvester's failure, all six harvesters are run,    *)
(* and the candidates of the others are the ones merged and ranked.        *)
C6_HarvesterIsolation ==
    /\ error.text # "harvester failure"
    /\ \A h \in threw : h <= Len(harvested) /\ harvested[h] = Null
    /\ (pc # "harvest" /\ checkArguments(requested, given) = "")
          => (Len(harvested) = 6 /\ Urls(rawCandidates) = Urls(harvested))

(* The today.json reader threw; the candidate of frontpages.com, harvested *)
(* after it, was ranked, downloaded and returned.                          *)
C6_Witness ==
    /\ pc = "done" /\ threw = {1} /\ result # Null
    /\ result.url = UrlNoExt /\ result.source = "frontpages.com"
    /\ files[".webp"] = "valid"

(* C11: for a fixed URL, source tag and dimensions, the score does not     *)
(* decrease when the byte size grows, for all byte sizes at or above the   *)
(* plausibility floor of the prober.                                       *)
C11_ScoreMonotoneInBytes ==
    (/\ sPc = "done" /\ sMeta # Null
     /\ sMeta.bytes >= ProbeMinBytes /\ sBytes2 >= ProbeMinBytes
     /\ sMeta.bytes <= sBytes2)
        => sScore <= sScore2

(* A cover of 39999 bytes scored against the same cover at 900001 bytes:   *)
(* the penalty for small files gave way to the highest size bonus.         *)
C11_Witness ==
    /\ sPc = "done" /\ sMeta # Null /\ sMeta.bytes = 39999 /\ sBytes2 = 900001
    /\ sScore2 = sScore + 55

(* C12 as stated: a URL containing "logo" scores strictly below the same   *)
(* URL with the "logo" text removed, whatever the probe result and source. *)
C12_LogoStrictlyBelow ==
    (sPc = "done" /\ includes(sUrl, "logo")) => sScore < sScoreCut

(* C12: a URL containing "logo" never scores above the same URL with the   *)
(* "logo" text removed, and scores at least 200 below it when what is left *)
(* contains none of the other non-cover patterns.                          *)
C12_LogoNeverAbove ==
    (sPc = "done" /\ includes(sUrl, "logo")) =>
        /\ sScore <= sScoreCut
        /\ (\A k \in badPatterns : ~includes(cutLogo(sUrl), k)) => sScore + 200 <= sScoreCut

(* A logo under wp-content/uploads ("uploads" contains "ads") scored the   *)
(* same with and without its "logo".                                       *)
C12_Witness ==
    /\ sPc = "done" /\ includes(sUrl, "logo")
    /\ includes(sUrl, "wp-content/uploads") /\ sScore = sScoreCut

(* C13: for a JPEG buffer beginning with SOI that contains a Start-Of-     *)
(* Frame segment, getJpegSize returns the width and height stored in the   *)
(* first such segment, as a decoder reports them; with no SOF before       *)
(* Start-Of-Scan or End-Of-Image it returns null; and it never throws.     *)
C13_JpegSizeIsFrameSize ==
    (nPc = "done" /\ nTruth.format = "jpeg") => (nSize = nTruth.dims /\ nSize # Thrown)

(* C14: for a buffer that starts with the PNG signature, has IHDR at bytes *)
(* 12-15 and holds 24 bytes, getPngSize returns the big-endian 32-bit      *)
(* width at offset 16 and height at offset 20; for any other buffer it     *)
(* returns null; and it never throws.                                      *)
C14_PngSizeIsIhdrSize ==
    (nPc = "done" /\ nTruth.format = "png") => (nSize = nTruth.dims /\ nSize # Thrown)

(* C15: for a RIFF/WEBP buffer carrying a VP8X chunk, getWebpSize returns  *)
(* the chunk's canvas width minus one plus 1 and canvas height minus one   *)
(* plus 1; for a buffer without a VP8X chunk it returns null.              *)
C15_WebpSizeIsCanvasSize ==
    (nPc = "done" /\ nTruth.format = "webp") => nSize = nTruth.dims

(* The sampled bytes hold a header that the sniffer of the response's      *)
(* content type reads dimensions from.                                     *)
ProbeHeaderSniffable == headerOfKind(bKind) # "" /\ headerOfKind(bKind) = mimeOf(bResp.ct)

(* C16: given a response, probeImage fails whenever its content type is    *)
(* not image/*, whenever it denotes SVG and whenever fewer than 8000 bytes *)
(* were sampled; in every other case it returns a probe result, whose      *)
(* width and height are unknown when the header cannot be sniffed.         *)
C16_ProbeRejections ==
    (bPc = "done" /\ bResp.ok) =>
        LET rejected == \/ ~isImageCt(bResp.ct)
                        \/ isSvgCt(bResp.ct)
                        \/ bResp.buf.len < ProbeMinBytes
        IN  /\ rejected => "error" \in DOMAIN bResult
            /\ ~rejected =>
                  /\ "contentType" \in DOMAIN bResult
                  /\ bResult.contentType = bResp.ct
                  /\ ~ProbeHeaderSniffable =>
                        (bResult.width = NullDim /\ bResult.height = NullDim)

(* A GIF of 8000 sampled bytes was accepted with unknown dimensions, its   *)
(* byte size taken from the content-range total.                           *)
C16_Witness ==
    /\ bPc = "done" /\ bResp.ok /\ bResp.ct = "image/gif" /\ bResp.buf.len = ProbeMinBytes
    /\ bResult = Meta("image/gif", 650000, NullDim, NullDim)

(* The publisher asked for is an alias whose target is in the roster. *)
AliasOfRosterPublisher ==
    /\ pc # "idle"
    /\ requested.type = "alias" /\ requested.aliasOf # NullStr
    /\ publishersByIdGet(roster, requested.aliasOf) # Null

(* C17: when the publisher asked for is an alias of a publisher of the     *)
(* roster, every harvester is run with the id and the configuration of the *)
(* target, none with those of the alias, and the entry written to the      *)
(* store and the error thrown name the target.                             *)
C17_AliasRunsAsTarget ==
    AliasOfRosterPublisher =>
        LET target == publishersByIdGet(roster, requested.aliasOf)
        IN  /\ \A k \in 1..Len(ranWith) :
                  /\ ranWith[k] = [id |-> target.id, config |-> target.config]
                  /\ ranWith[k].id # requested.id
            /\ stored # Null => (stored.publisherId = target.id /\ stored.id[1] = target.id)
            /\ error # NoError => error.id = target.id

(* The alias marca-es was asked for: six harvesters ran as marca, a cover  *)
(* was downloaded and the entry written is marca's.                        *)
C17_Witness ==
    /\ requested = MarcaAlias /\ pc = "done" /\ result # Null
    /\ Len(ranWith) = 6 /\ stored = Entry(Marca, DateStr)

(* The entry a call of the concurrent run writes when it succeeds. *)
EntryOfCall(c) == StoreEntry(kCalls[c].publisher, kCalls[c].dateStr, candidateUrlOf(c))

InStore(entry) == \E i \in 1..Len(kStore) : kStore[i] = entry

(* C18: with calls for different (publisher, date) keys running            *)
(* concurrently against one today.json, the store holds the entry of every *)
(* call that has succeeded, whatever the other call did in between.        *)
C18_NoLostUpdate ==
    kPc # <<>> => \A c \in RaceCalls : kPc[c] = "done" => InStore(EntryOfCall(c))

(* Both calls succeeded, over a store that held an older entry of one of   *)
(* their keys and an entry of a third publisher: the store holds the two   *)
(* new entries and the third one.                                          *)
C18_Witness ==
    /\ kPc # <<>> /\ \A c \in RaceCalls : kPc[c] = "done"
    /\ kCalls[2].publisher = As /\ kCalls[2].dateStr = DateStr
    /\ kStore = <<EntryOfCall(2), EntryOfCall(1), StoreEntry(Sport, DateStr, UrlC)>>

(* C19 as stated: concurrent calls for different publishers or dates never *)
(* write, validate or rename the same file path, the same output directory *)
(* included.                                                               *)
C19_NoSharedPath ==
    kPc # <<>> => kTouched[1] \cap kTouched[2] = {}

(* C19: concurrent calls for different dates, or given different output    *)
(* directories, never write, validate or rename the same file path.        *)
C19_NoSharedPathAcrossDirsOrDates ==
    (/\ kPc # <<>>
     /\ \/ kCalls[1].outputDir # kCalls[2].outputDir
        \/ kCalls[1].dateStr # kCalls[2].dateStr)
        => kTouched[1] \cap kTouched[2] = {}

(* Two calls for different dates in one directory both ran to their end,   *)
(* each over its own temporary and final path.                             *)
C19_Witness ==
    /\ kPc # <<>> /\ \A c \in RaceCalls : kPc[c] = "done"
    /\ kCalls[1].outputDir = SharedDir /\ kCalls[2].outputDir = SharedDir
    /\ kCalls[1].dateStr # kCalls[2].dateStr
    /\ kCalls[1].urlExt = "" /\ kCalls[2].urlExt = ""
    /\ Cardinality(kTouched[1] \cup kTouched[2]) = 4

(* The ids of the enabled publishers of the roster, in roster order. *)
EnabledIds ==
    LET en == SelectSeq(tRoster, LAMBDA p : p.enabled)
    IN  [i \in 1..Len(en) |-> en[i].id]

(* The ids of the enabled publishers that have a record in the list, in    *)
(* roster order.                                                           *)
EnabledIdsIn(list) ==
    SelectSeq(EnabledIds, LAMBDA id : \E k \in 1..Len(list) : list[k].id = id)

(* C20: after a run of either driver every enabled publisher has exactly   *)
(* one record, of success or of failure, whichever calls failed, and the   *)
(* records are in roster order: main's results list as a whole, and each   *)
(* of run's two lists (ok, fail), which between them hold every enabled    *)
(* publisher once; what the driver writes at its end are these records.    *)
C20_OneRecordPerEnabledPublisher ==
    tPc = "done" =>
        /\ tDriver = "build" =>
              /\ [i \in 1..Len(tResults) |-> tResults[i].publisherId] = EnabledIds
              /\ tWritten = [results |-> tResults]
        /\ tDriver = "test" =>
              /\ [i \in 1..Len(tOk) |-> tOk[i].id] = EnabledIdsIn(tOk)
              /\ [i \in 1..Len(tFail) |-> tFail[i].id] = EnabledIdsIn(tFail)
              /\ Len(tOk) + Len(tFail) = Len(EnabledIds)
              /\ \A a \in 1..Len(tOk), b \in 1..Len(tFail) : tOk[a].id # tFail[b].id
              /\ tWritten = [ok |-> tOk, fail |-> tFail]

(* main went through a roster of three enabled publishers of which the     *)
(* first and the last failed: three records, in roster order.              *)
C20_Witness ==
    /\ tPc = "done" /\ tDriver = "build" /\ Len(tRoster) = 3
    /\ \A i \in 1..3 : tRoster[i].enabled
    /\ Len(tResults) = 3
    /\ ~tResults[1].ok /\ tResults[2].ok /\ ~tResults[3].ok

(* The numeric value of a size of the direct URLs. *)
sizeValue(size) ==
    CASE size = "2000" -> 2000 [] size = "1500" -> 1500 [] size = "1200" -> 1200
      [] size = "1000" -> 1000 [] size = "750" -> 750 [] size = "500" -> 500
      [] size = "300" -> 300

IsMappedKey(key) ==
    \E i \in 1..Len(KIOSKO_MAP(dPub.id)) : KIOSKO_MAP(dPub.id)[i] = key

(* C21: fetchKioskoNetDirectByKeys probes slug x size URLs slug by slug,   *)
(* mapped slugs before generated ones and, within a slug, sizes from the   *)
(* largest down; it returns the URL of the first probe that succeeded with *)
(* a score of 70 or more and probes nothing after it; a probe that failed  *)
(* or scored lower only moves it on, and it returns null only when every   *)
(* combination was probed.                                                 *)
C21_DirectOrderAndShortCircuit ==
    /\ \A i, j \in 1..Len(dProbed) :
          i < j =>
            LET a == dProbed[i]
                b == dProbed[j]
            IN  /\ a.key = b.key => sizeValue(a.size) > sizeValue(b.size)
                /\ a.key # b.key => \A k \in j..Len(dProbed) : dProbed[k].key # a.key
                /\ IsMappedKey(b.key) => IsMappedKey(a.key)
    /\ dPc = "loop" => dFirstPass = 0 /\ dResult = Null
    /\ dPc = "done" /\ dResult # Null =>
          /\ dFirstPass = Len(dProbed)
          /\ dResult.url = dProbed[dFirstPass].url
    /\ dPc = "done" /\ dResult = Null =>
          /\ dFirstPass = 0
          /\ Len(dProbed) = Len(dKeys) * 7

(* For A Bola the three mapped keys gave nothing in 21 probes, and the     *)
(* 1500 image of the generated key pt/a_bol is returned.                   *)
C21_Witness ==
    /\ dPc = "done" /\ dResult # Null
    /\ Len(dProbed) = 23
    /\ ~IsMappedKey(dProbed[23].key)
    /\ dResult.url = <<"https:", "img.kiosko.net", "2025/12/20", "pt/a_bol", "1500", ".jpg">>

(* C22: in fetchKioskoNetFromDailyHtmlAny the image of a tile is probed    *)
(* only if the tile's scoreMatch against the publisher is 6 or more; a     *)
(* tile below is never probed and never the one returned.                  *)
C22_BelowBarNeverProbed ==
    /\ \A i \in 1..Len(yProbed) :
          scoreMatch(yPub, yProbed[i].href, yProbed[i].alt) >= MinMatch
    /\ yResult # Null =>
          scoreMatch(yPub, yResult.tile.href, yResult.tile.alt) >= MinMatch

(* Mundo Deportivo: the tile of the paper with no text for its image       *)
(* matches with 5 and is passed over although its image is the cover of    *)
(* the day on img.kiosko.net; nothing was probed and null is returned.     *)
C22_Witness ==
    /\ yPc = "done" /\ yResult = Null /\ yProbed = <<>>
    /\ \E i \in 1..Len(yPassed) :
          /\ yPassed[i].imgUrl = KMd20
          /\ scoreMatch(yPub, yPassed[i].href, yPassed[i].alt) = 5

(* The ranking pass is over and nothing has happened since: fetchCover    *)
(* has thrown for an empty ranking, or is at the first turn of the         *)
(* download loop.                                                          *)
Ranked ==
    /\ rankI = Len(rawCandidates) /\ rankI > 0
    /\ \/ pc = "done" /\ error = allInvalidError
       \/ pc = "download" /\ dI = 1 /\ attempts = <<>>

(* The probes of the ranking pass that gave a result. *)
ProbedOk == { i \in 1..Len(rankProbes) : rankProbes[i].meta # Null }

(* C23: rankCandidates probes every deduplicated candidate once, in        *)
(* order, and scores each result with scoreCoverCandidate on the           *)
(* candidate's own URL and source; a candidate whose probe threw is left   *)
(* out and the pass goes on; the list the download loop gets holds the     *)
(* others, each once, with scores that never rise.                         *)
C23_RankingPass ==
    /\ Len(rankProbes) = rankI
    /\ \A i \in 1..Len(rankProbes) :
          /\ rankProbes[i].url = rawCandidates[i].url
          /\ rankProbes[i].referer = rawCandidates[i].referer
    /\ pc = "rank" => rankI < Len(rawCandidates)
    /\ pc = "download" => rankI = Len(rawCandidates)
    /\ Ranked =>
          LET ok == ProbedOk
          IN  /\ Len(ranked) = Cardinality(ok)
              /\ \A i \in ok :
                    \E k \in 1..Len(ranked) :
                       /\ ranked[k].url = rawCandidates[i].url
                       /\ ranked[k].source = rawCandidates[i].source
                       /\ ranked[k]._score =
                             scoreCoverCandidate(rawCandidates[i].url, rankProbes[i].meta,
                                                 rawCandidates[i].source)
              /\ \A k \in 1..(Len(ranked) - 1) : ranked[k]._score >= ranked[k + 1]._score
              /\ (ok = {}) = (pc = "done")

(* Three candidates from three harvesters: the probe of the first threw,   *)
(* the two others are ranked, the later-found one first.                   *)
C23_Witness ==
    /\ Ranked /\ pc = "download"
    /\ Len(rawCandidates) = 3 /\ rankProbes[1].meta = Null
    /\ Len(ranked) = 2
    /\ ranked[1].url = rawCandidates[3].url
    /\ ranked[1]._score > ranked[2]._score

(* C24: fetchCover writes the curated store only with a validated file at  *)
(* the final name of the candidate it returns, once in a call that         *)
(* succeeds, and not at all in a call that fails, whether for its          *)
(* arguments, for want of candidates, or with every probe or download      *)
(* failed.                                                                 *)
C24_StoreWrittenOnSuccessOnly ==
    /\ todayJson \in {0, 1}
    /\ (todayJson = 0) = (stored = Null)
    /\ todayJson = 1 =>
          /\ pc = "done" /\ result # Null
          /\ files[result.localFile] = "valid"
          /\ attempts[Len(attempts)].downloaded
          /\ attempts[Len(attempts)].url = result.url
          /\ stored = Entry(publisher, DateStr)
    /\ (pc = "done" /\ result # Null) => todayJson = 1
    /\ (pc = "done" /\ result = Null) => (todayJson = 0 /\ error # NoError)

(* The candidate without extension was streamed to <date>-medium.img,      *)
(* renamed to <date>-medium.webp and then entered in the store, after a    *)
(* first candidate had failed to download.                                 *)
C24_Witness ==
    /\ pc = "done" /\ result # Null /\ todayJson = 1
    /\ result.localFile = ".webp" /\ files[".img"] = "absent"
    /\ Len(attempts) = 2 /\ ~attempts[1].downloaded

(* The image passes a probe with a score of 70 or more as a "meta" or      *)
(* "dom:page_scan" candidate.                                              *)
ProbesAbove(u, source) ==
    /\ u # NullUrl /\ mProbe[u] # Null
    /\ scoreCoverCandidate(u, mProbe[u], source) >= 70

(* The first of the page's meta images that probes above the threshold. *)
FirstMetaAbove(page) ==
    LET hits == { i \in 1..Len(page.metaImages) : ProbesAbove(page.metaImages[i], "meta") }
    IN  IF ~page.loads \/ hits = {} THEN NullUrl
        ELSE page.metaImages[CHOOSE i \in hits : \A j \in hits : i <= j]

(* C25: a configured og:image primary whose page names an image that       *)
(* probes above the threshold yields that image; a dom:page_scan primary   *)
(* yields the image at its selector if that probes above the threshold     *)
(* and the page's meta image otherwise; the site fallbacks are consulted   *)
(* in their declared order and the first with such an image is the one     *)
(* returned.                                                               *)
C25_DeclaredConfigurationFollowed ==
    mPc = "done" =>
       /\ (mPub.primary # Null /\ mPub.primary.url # NullStr
              /\ mPub.primary.method \in {"og:image", "dom:page_scan"}) =>
             LET page == mPages[mPub.primary.url]
                 dom == IF mPub.primary.method = "dom:page_scan" /\ page.loads
                           /\ ProbesAbove(page.atSelector, "dom:page_scan")
                        THEN page.atSelector ELSE NullUrl
                 expected == IF dom # NullUrl THEN dom ELSE FirstMetaAbove(page)
             IN  (mPub.primary.selector = NullStr \/ mPub.primary.method = "dom:page_scan")
                    /\ expected # NullUrl
                    => (mPrimary.value # Null /\ mPrimary.value.url = expected)
       /\ LET sites == { i \in 1..Len(mPub.fallbacks) :
                           /\ mPub.fallbacks[i].type = "site"
                           /\ FirstMetaAbove(mPages[mPub.fallbacks[i].url]) # NullUrl }
          IN  sites # {} =>
                 LET first == CHOOSE i \in sites : \A j \in sites : i <= j
                 IN  /\ mFallback.value # Null
                     /\ mFallback.value.url = FirstMetaAbove(mPages[mPub.fallbacks[first].url])
                     /\ mFallback.value.referer = mPub.fallbacks[first].url

(* C26: whatever the harvesters return, a URL that a successful fetchCover *)
(* returns and that embeds an img.kiosko.net/YYYY/MM/DD/ date has the      *)
(* requested date, and no download request is ever issued for a ranked     *)
(* candidate whose embedded date differs: such a candidate is passed over. *)
EmbedsOtherDate(url) ==
    /\ extractKioskoDateFromUrl(url) # NullStr
    /\ extractKioskoDateFromUrl(url) # DateStr

C26_StaleKioskoNeverDownloaded ==
    /\ result # Null => ~EmbedsOtherDate(result.url)
    /\ \A k \in 1..Len(attempts) : ~EmbedsOtherDate(attempts[k].url)

(* A candidate of the day before was ranked first and passed over with no  *)
(* request; the call then returned the dated URL of the requested day.     *)
C26_Witness ==
    /\ pc = "done" /\ result # Null
    /\ Len(ranked) >= 2
    /\ EmbedsOtherDate(ranked[1].url)
    /\ result.url = K20
    /\ Len(attempts) = 1 /\ attempts[1].rank = 2

(* C27: once a candidate has been downloaded, validated and renamed to its *)
(* final path, fetchCover returns success for that candidate: no other     *)
(* candidate is attempted after it and the call does not end in failure,   *)
(* even if the update of today.json that follows fails.                    *)
C27_ValidatedCandidateIsReturned ==
    \A k \in 1..Len(attempts) :
        attempts[k].downloaded =>
            /\ k = Len(attempts)
            /\ pc = "done" /\ error = NoError
            /\ result # Null /\ result.url = attempts[k].url

(* C28: every call of fetchCover comes to an end, returning or throwing,   *)
(* when each of its requests does: withRetry calls fn at most tries times, *)
(* the loop of the kiosko harvester runs over a finite list, and each      *)
(* ranked candidate is attempted at most once.                             *)
Finished ==
    /\ pc \in {"idle", "done"}
    /\ rPc \in {"idle", "returned", "thrown"}
    /\ dPc \in {"idle", "done"}

AttemptedAtMostOnce ==
    /\ \A j, k \in 1..Len(attempts) : j < k => attempts[j].rank < attempts[k].rank
    /\ Len(attempts) <= Len(ranked)
    /\ rCalls <= rTries
    /\ Len(dProbed) <= Len(dKeys) * Len(directSizes)

HasKey(x, publisherId, dateStr) ==
    x # Null /\ x.publisherId = publisherId /\ x.date = dateStr

Occurrences(arr, x) == Cardinality({ k \in 1..Len(arr) : arr[k] = x })

C29_UpsertKeepsOtherKeys ==
    (jPc \notin {"idle", "call"} /\ parses(jBefore)) =>
        LET before == parseTodayJson(jBefore)
            after == parseTodayJson(jAfter)
        IN  /\ Cardinality({ k \in 1..Len(after) :
                               HasKey(after[k], jCall.publisherId, jCall.date) }) = 1
            /\ \A k \in 1..Len(before) :
                 (before[k] # Null /\ ~HasKey(before[k], jCall.publisherId, jCall.date)) =>
                     Occurrences(after, before[k]) = Occurrences(before, before[k])

(* C30: trySourcesAndDownload tries its source pages strictly in the order *)
(* given; a page that does not load, a page with no image that is not      *)
(* logo-like, and a download that fails never stop the loop; it returns    *)
(* the image of the first source whose download completes, trying no later *)
(* source, and returns null only after every source has been tried.        *)
C30_SourcesInOrder ==
    /\ \A k \in 1..Len(lLog) :
         /\ lLog[k].source = k
         /\ k < Len(lLog) => lLog[k].outcome # "downloaded"
         /\ (lLog[k].outcome # "downloaded" /\ k = Len(lLog)) =>
               \/ lPc = "loop" /\ lI = k + 1
               \/ lPc = "done" /\ k = Len(lSources)
    /\ (lPc = "done" /\ lResult # Null) =>
          /\ lLog # <<>>
          /\ lLog[Len(lLog)].outcome = "downloaded"
          /\ lResult.url = lLog[Len(lLog)].url
          /\ ~logoLike(lResult.url)
    /\ (lPc = "done" /\ lResult = Null) =>
          /\ Len(lLog) = Len(lSources)
          /\ \A k \in 1..Len(lLog) : lLog[k].outcome # "downloaded"

(* The first source did not load, the download of the second one's image   *)
(* failed, the third one's image was downloaded and returned.              *)
C30_Witness ==
    /\ lPc = "done" /\ lResult # Null /\ Len(lLog) = 3
    /\ lLog[1].outcome = "page failed"
    /\ lLog[2].outcome = "download failed"
    /\ lResult.url = "https://cdn.frontpages.com/marca.webp"

====
